---- MODULE Spec2Model ----
(***************************************************************************)
(* Model of the Flask backend src/api.py of the causal chat analysis      *)
(* service: the global _cache and its loading/loaded flags, load_data()   *)
(* as it is run by request handler threads and by the background loader   *)
(* threads, and the request handlers that read the cache.                 *)
(*                                                                         *)
(* Every thread of the server (a handler thread of the threaded           *)
(* development server, or a threading.Thread running                      *)
(* load_data_background) is one element of Threads.  A thread's position  *)
(* in the code is pc[t]; the labels carry the line of src/api.py the      *)
(* thread is about to execute.                                            *)
(***************************************************************************)
EXTENDS Integers, Sequences, FiniteSets, TLC

\* ------------------------------------------------------------------ bounds
NumThreads == 2
MaxRequests == 2

Threads == 1..NumThreads

\* ------------------------------------------------------------ python values
\* A python list held in the cache: set = FALSE is None; obj is the identity
\* of the list object (the thread whose build created it); items its elements.
NoneList == [set |-> FALSE, obj |-> 0, items |-> << >>]
EmptyList(o) == [set |-> TRUE, obj |-> o, items |-> << >>]
List(o, xs) == [set |-> TRUE, obj |-> o, items |-> xs]

\* `x or []` of python: a None or empty list gives a fresh [] (no identity).
OrEmpty(l) == IF l.set /\ Len(l.items) > 0 THEN l ELSE EmptyList(0)

\* The raw transcripts on disk, as load_transcripts() returns them, and the
\* flattened turns preprocess_transcripts() makes of them (one entry per
\* turn, carrying the transcript_id of the turn).
CorpusIds == <<"T1", "T2">>
CorpusTurns == <<"T1", "T1", "T2">>

\* Outcomes of the calls the build makes into the data modules.
LoadOutcomes == {"corpus", "empty", "raise"}
CallOutcomes == {"ok", "raise"}

\* -------------------------------------------------------------------- state
VARIABLES
    cache,       \* the module global _cache
    hasCausal,   \* HAS_CAUSAL_MODULES, fixed by the imports at module load
    pc,          \* pc[t]: the line thread t is about to execute
    op,          \* op[t]: the operation the thread is running
    arg,         \* arg[t]: the input of the operation
    ret,         \* ret[t]: what load_data() returned to the thread
    resp,        \* the response a handler has just returned (an event: the next step clears it)
    detectors,   \* detectors[o]: state of the CausalChainDetector object o
    engines,     \* engines[o]: what the CausalQueryEngine object o holds
    builders,    \* history: the threads that started a build (line 102)
    reqs,        \* number of operations started so far
    hasSignals,  \* TRUE when src.signal_extraction was imported (lines 18-25, 64-69)
    managers,    \* managers[o]: the registry (id -> session) of SessionManager object o
    heap,        \* the QueryContext objects ever created, by address
    loc,         \* loc[t]: the handler's locals session_manager, session_id, context
    nextId,      \* number of session ids generated so far
    okQueries    \* history: the /api/query requests that returned success

envVars == <<hasCausal, hasSignals>>
sessVars == <<managers, heap, loc, nextId, okQueries>>
vars == <<cache, pc, op, arg, ret, resp, detectors, engines, builders, reqs, envVars, sessVars>>

\* _cache as the module creates it (src/api.py lines 80-91).
InitCache ==
    [transcripts |-> NoneList, processed |-> NoneList,
     detector |-> 0, query_engine |-> 0, session_manager |-> 0,
     load_error |-> FALSE, loading |-> FALSE, loaded |-> FALSE]

\* A CausalQueryEngine: the detector and the transcripts_dict it was given.
NoEngine == [det |-> 0, ids |-> << >>]
NoArg == [id |-> "", sid |-> "", question |-> "", transcript |-> << >>,
          chain |-> << >>, all_signals |-> << >>,
          min_confidence |-> 0, min_evidence |-> 0, corpus |-> << >>]
NoLoc == [mgr |-> 0, sid |-> "", ctx |-> 0]
NoRegistry == [s \in {} |-> 0]
NoRet == [via |-> "none", transcripts |-> NoneList, processed |-> NoneList, text |-> << >>,
          chain_stats |-> {}]
\* The 'data' object of a JSON response: the keys it has (fields) and their
\* values; a key the handler did not set keeps the empty value below.
NoData == [fields |-> {}, risk_score |-> [num |-> 0, den |-> 1], risk_rounding |-> 0,
           escalated |-> FALSE,
           detected_signals |-> {}, causal_chain |-> << >>, causal_explanation |-> << >>,
           evidence |-> << >>, turn_signals |-> << >>, turn_count |-> 0, signal_count |-> 0,
           chains |-> << >>, total_chains |-> 0, filtered_chains |-> 0,
           confidence |-> [num |-> 0, den |-> 1],
           similar_cases |-> << >>, count |-> 0, query_history |-> << >>,
           chain_stats |-> {}, explained |-> FALSE, chain |-> << >>]
NoResp == [thread |-> 0, op |-> "none", arg |-> NoArg, via |-> "none",
           status |-> 0, success |-> FALSE, body |-> "none", sid |-> "", data |-> NoData]

Init ==
    /\ cache = InitCache
    /\ hasCausal \in BOOLEAN
    /\ pc = [t \in Threads |-> "idle"]
    /\ op = [t \in Threads |-> "none"]
    /\ arg = [t \in Threads |-> NoArg]
    /\ ret = [t \in Threads |-> NoRet]
    /\ resp = NoResp
    /\ detectors = [o \in Threads |-> "absent"]
    /\ engines = [o \in Threads |-> NoEngine]
    /\ builders = {}
    /\ reqs = 0
    /\ hasSignals \in BOOLEAN
    /\ managers = [o \in Threads |-> NoRegistry]
    /\ heap = << >>
    /\ loc = [t \in Threads |-> NoLoc]
    /\ nextId = 0
    /\ okQueries = [o \in Threads |-> NoRegistry]

\* ------------------------------------------------------------- load_data()
Goto(t, l) == pc' = [pc EXCEPT ![t] = l]

\* No response is returned by this step.
Quiet == resp' = NoResp

\* The thread's operation is over: its frame and locals are gone.
Finish(t) ==
    /\ pc' = [pc EXCEPT ![t] = "idle"]
    /\ op' = [op EXCEPT ![t] = "none"]
    /\ arg' = [arg EXCEPT ![t] = NoArg]
    /\ ret' = [ret EXCEPT ![t] = NoRet]
    /\ loc' = [loc EXCEPT ![t] = NoLoc]

\* load_data() returns v: the background loader only logs and ends
\* (lines 1143-1149, 1172-1178), a handler goes on with its body.
Return(t, v) ==
    IF op[t] = "background"
    THEN Finish(t)
    ELSE /\ ret' = [ret EXCEPT ![t] = v]
         /\ Goto(t, "body")
         /\ UNCHANGED <<op, arg, loc>>

\* The pair load_data() gives back when the cache is loaded (lines 96, 154).
CachedPair == [via |-> "loaded",
               transcripts |-> OrEmpty(cache.transcripts),
               processed |-> OrEmpty(cache.processed)]

\* The pair `[], []` of lines 100, 112 and 146.
EmptyPair(via) == [via |-> via, transcripts |-> EmptyList(0), processed |-> EmptyList(0)]

\* The value line 100 returns to a caller that finds a build in progress.
NotReadyResult == EmptyPair("loading")

\* preprocess_transcripts(): the flattened turns of the transcripts given.
Preprocess(trs) == IF Len(trs.items) = 0 THEN << >> ELSE CorpusTurns

\* load_data, lines 153-157, and load_data_with_timeout, lines 95-96: both
\* return the cached pair when the cache is loaded.
Load95(t) ==
    /\ pc[t] = "ld95"
    /\ IF cache.loaded
       THEN Return(t, CachedPair)
       ELSE /\ Goto(t, "ld98")
            /\ UNCHANGED <<op, arg, ret, loc>>
    /\ Quiet
    /\ UNCHANGED <<cache, envVars, managers, heap, nextId, okQueries,
                   detectors, engines, builders, reqs>>

\* lines 98-100: a build is in progress, return empty lists.
Load98(t) ==
    /\ pc[t] = "ld98"
    /\ IF cache.loading
       THEN Return(t, NotReadyResult)
       ELSE /\ Goto(t, "ld102")
            /\ UNCHANGED <<op, arg, ret, loc>>
    /\ Quiet
    /\ UNCHANGED <<cache, envVars, managers, heap, nextId, okQueries,
                   detectors, engines, builders, reqs>>

\* line 102: the build starts.
Load102(t) ==
    /\ pc[t] = "ld102"
    /\ cache' = [cache EXCEPT !.loading = TRUE]
    /\ builders' = builders \cup {t}
    /\ Goto(t, "ld105")
    /\ Quiet
    /\ UNCHANGED <<envVars, sessVars, op, arg, ret, detectors, engines, reqs>>

\* line 105: _cache['transcripts'] = load_transcripts().
Load105(t) ==
    /\ pc[t] = "ld105"
    /\ \E o \in LoadOutcomes :
         CASE o = "raise"  -> /\ cache' = cache
                              /\ Goto(t, "ld142")
           [] o = "empty"  -> /\ cache' = [cache EXCEPT !.transcripts = EmptyList(t)]
                              /\ Goto(t, "ld107")
           [] o = "corpus" -> /\ cache' = [cache EXCEPT !.transcripts = List(t, CorpusIds)]
                              /\ Goto(t, "ld107")
    /\ Quiet
    /\ UNCHANGED <<envVars, sessVars, op, arg, ret, detectors, engines, builders, reqs>>

\* lines 107-112: nothing was loaded; the cache is marked loaded with empty data.
Load107(t) ==
    /\ pc[t] = "ld107"
    /\ IF Len(cache.transcripts.items) = 0
       THEN /\ cache' = [cache EXCEPT !.transcripts = EmptyList(t),
                                      !.processed = EmptyList(t),
                                      !.loaded = TRUE]
            /\ ret' = [ret EXCEPT ![t] = EmptyPair("built")]
            /\ Goto(t, "ld148")
       ELSE /\ UNCHANGED <<cache, ret>>
            /\ Goto(t, "ld117")
    /\ Quiet
    /\ UNCHANGED <<envVars, sessVars, op, arg, detectors, engines, builders, reqs>>

\* line 117: _cache['processed'] = preprocess_transcripts(_cache['transcripts']),
\* and line 121: if HAS_CAUSAL_MODULES.
Load117(t) ==
    /\ pc[t] = "ld117"
    /\ \E o \in CallOutcomes :
         IF o = "raise"
         THEN /\ cache' = cache
              /\ Goto(t, "ld142")
         ELSE /\ cache' = [cache EXCEPT !.processed = List(t, Preprocess(cache.transcripts))]
              /\ Goto(t, IF hasCausal THEN "ld124" ELSE "ld136")
    /\ Quiet
    /\ UNCHANGED <<envVars, sessVars, op, arg, ret, detectors, engines, builders, reqs>>

\* line 124: _cache['detector'] = CausalChainDetector(); an exception is
\* caught at line 133 and the load goes on at line 136.
Load124(t) ==
    /\ pc[t] = "ld124"
    /\ \E o \in CallOutcomes :
         IF o = "raise"
         THEN /\ UNCHANGED <<cache, detectors>>
              /\ Goto(t, "ld136")
         ELSE /\ cache' = [cache EXCEPT !.detector = t]
              /\ detectors' = [detectors EXCEPT ![t] = "empty"]
              /\ Goto(t, "ld125")
    /\ Quiet
    /\ UNCHANGED <<envVars, sessVars, op, arg, ret, engines, builders, reqs>>

\* line 125: _cache['detector'].compute_chain_statistics(...), on the detector
\* the cache holds when the line runs.
Load125(t) ==
    /\ pc[t] = "ld125"
    /\ \E o \in CallOutcomes :
         IF o = "raise"
         THEN /\ UNCHANGED detectors
              /\ Goto(t, "ld136")
         ELSE /\ detectors' = [detectors EXCEPT ![cache.detector] =
                                  IF Len(cache.transcripts.items) = 0 THEN "empty" ELSE "computed"]
              /\ Goto(t, "ld129")
    /\ Quiet
    /\ UNCHANGED <<cache, envVars, sessVars, op, arg, ret, engines, builders, reqs>>

\* Lines 128-129 as they would be outside the inner try: an exception goes
\* to the handler of line 139.
Load129_Outer(t) ==
    /\ pc[t] = "ld129"
    /\ \E o \in CallOutcomes :
         IF o = "raise"
         THEN /\ UNCHANGED <<cache, engines>>
              /\ Goto(t, "ld142")
         ELSE /\ cache' = [cache EXCEPT !.query_engine = t]
              /\ engines' = [engines EXCEPT ![t] = [det |-> cache.detector,
                                                    ids |-> cache.transcripts.items]]
              /\ Goto(t, "ld132")
    /\ Quiet
    /\ UNCHANGED <<envVars, sessVars, op, arg, ret, detectors, builders, reqs>>

\* lines 128-129: _cache['query_engine'] = CausalQueryEngine(_cache['detector'], ...).
Load129(t) ==
    /\ pc[t] = "ld129"
    /\ \E o \in CallOutcomes :
         IF o = "raise"
         THEN /\ UNCHANGED <<cache, engines>>
              /\ Goto(t, "ld136")
         ELSE /\ cache' = [cache EXCEPT !.query_engine = t]
              /\ engines' = [engines EXCEPT ![t] = [det |-> cache.detector,
                                                    ids |-> cache.transcripts.items]]
              /\ Goto(t, "ld132")
    /\ Quiet
    /\ UNCHANGED <<envVars, sessVars, op, arg, ret, detectors, builders, reqs>>

\* line 132: _cache['session_manager'] = SessionManager().
Load132(t) ==
    /\ pc[t] = "ld132"
    /\ \E o \in CallOutcomes :
         IF o = "raise"
         THEN /\ UNCHANGED <<cache, managers>>
              /\ Goto(t, "ld136")
         ELSE /\ cache' = [cache EXCEPT !.session_manager = t]
              /\ managers' = [managers EXCEPT ![t] = NoRegistry]
              /\ Goto(t, "ld136")
    /\ Quiet
    /\ UNCHANGED <<envVars, heap, loc, nextId, okQueries, op, arg, ret,
                   detectors, engines, builders, reqs>>

\* line 136: _cache['loaded'] = True.
Load136(t) ==
    /\ pc[t] = "ld136"
    /\ cache' = [cache EXCEPT !.loaded = TRUE]
    /\ Goto(t, "ld137")
    /\ Quiet
    /\ UNCHANGED <<envVars, sessVars, op, arg, ret, detectors, engines, builders, reqs>>

\* line 137: return _cache['transcripts'], _cache['processed'].
Load137(t) ==
    /\ pc[t] = "ld137"
    /\ ret' = [ret EXCEPT ![t] = [via |-> "built",
                                  transcripts |-> cache.transcripts,
                                  processed |-> cache.processed]]
    /\ Goto(t, "ld148")
    /\ Quiet
    /\ UNCHANGED <<cache, envVars, sessVars, op, arg, detectors, engines, builders, reqs>>

\* lines 139-146: the build raised; the cache is marked loaded with empty data.
Load142(t) ==
    /\ pc[t] = "ld142"
    /\ cache' = [cache EXCEPT !.load_error = TRUE,
                              !.transcripts = EmptyList(t),
                              !.processed = EmptyList(t),
                              !.loaded = TRUE]
    /\ ret' = [ret EXCEPT ![t] = EmptyPair("built")]
    /\ Goto(t, "ld148")
    /\ Quiet
    /\ UNCHANGED <<envVars, sessVars, op, arg, detectors, engines, builders, reqs>>

\* lines 147-148: finally: _cache['loading'] = False, and the return.
Load148(t) ==
    /\ pc[t] = "ld148"
    /\ cache' = [cache EXCEPT !.loading = FALSE]
    /\ Return(t, ret[t])
    /\ Quiet
    /\ UNCHANGED <<envVars, managers, heap, nextId, okQueries,
                   detectors, engines, builders, reqs>>

\* The steps of load_data() and of the build it may start.
LoadStep(t) ==
    \/ Load95(t) \/ Load98(t) \/ Load102(t) \/ Load105(t) \/ Load107(t)
    \/ Load117(t) \/ Load124(t) \/ Load125(t) \/ Load129(t) \/ Load132(t)
    \/ Load136(t) \/ Load137(t) \/ Load142(t) \/ Load148(t)

\* The positions of a thread whose build is in flight (lines 103-148).
BuildPcs == {"ld105", "ld107", "ld117", "ld124", "ld125", "ld129",
             "ld132", "ld136", "ld137", "ld142", "ld148"}

\* ----------------------------------------------------------- the operations
\* A thread takes up an operation: the background loader of create_app
\* (lines 1141-1153) and of __main__ (lines 1171-1182), or a request.
Begin(t, o, a, l) ==
    /\ pc[t] = "idle"
    /\ reqs < MaxRequests
    /\ reqs' = reqs + 1
    /\ op' = [op EXCEPT ![t] = o]
    /\ arg' = [arg EXCEPT ![t] = a]
    /\ Goto(t, l)
    /\ Quiet
    /\ UNCHANGED <<cache, envVars, sessVars, ret, detectors, engines, builders>>

\* threading.Thread(target=load_data_background).start()
StartBackground(t) == Begin(t, "background", NoArg, "ld95")

\* The handler returns its response and the request is over.
RespondData(t, st, ok, b, sid, data) ==
    /\ resp' = [thread |-> t, op |-> op[t], arg |-> arg[t], via |-> ret[t].via,
                status |-> st, success |-> ok, body |-> b, sid |-> sid, data |-> data]
    /\ Finish(t)

\* A response without a 'data' object (the error responses), or one whose
\* data the model does not look into.
Respond(t, st, ok, b, sid) == RespondData(t, st, ok, b, sid, NoData)

\* Transcript ids a client may ask for: one of the corpus, one unknown.
RequestIds == {"T1", "TX"}

IdsOf(l) == {l.items[i] : i \in 1..Len(l.items)}

\* GET /api/transcript/<transcript_id>, lines 596-621.
StartTranscript(t) ==
    \E id \in RequestIds : Begin(t, "transcript", [NoArg EXCEPT !.id = id], "ld95")

GetTranscript(t) ==
    /\ pc[t] = "body"
    /\ op[t] = "transcript"
    /\ IF arg[t].id \notin IdsOf(ret[t].transcripts)
       THEN Respond(t, 404, FALSE, "Transcript not found", "")
       ELSE \E o \in CallOutcomes :
              IF o = "raise"
              THEN Respond(t, 500, FALSE, "error", "")
              ELSE Respond(t, 200, TRUE, "transcript", "")
    /\ UNCHANGED <<cache, envVars, managers, heap, nextId, okQueries,
                   detectors, engines, builders, reqs>>

\* ------------------------------------------------- sessions (query_context)
\* SessionManager and QueryContext of src.query_context, as the spec's 4.5
\* gives them: create_session(id) makes a new session with an empty history
\* under that id (a generated, unused id when none is given) and registers
\* it; get_session(id) looks the id up in the registry.
\* The n-th generated identifier.
GeneratedId(n) == "g" \o ToString(n)

NewSession(m, sid) == [session_id |-> sid, mgr |-> m, history |-> << >>, context |-> << >>]

\* self.sessions[sid] = session
Register(reg, sid, a) == [x \in DOMAIN reg \cup {sid} |-> IF x = sid THEN a ELSE reg[x]]

\* SessionManager.get_session(sid): the address of the session, 0 for None.
GetSession(m, sid) == IF sid \in DOMAIN managers[m] THEN managers[m][sid] ELSE 0

\* SessionManager.create_session(sid) on manager m, giving the address of
\* the new session to thread t as its local `context`.
CreateSession(t, m, sid) ==
    /\ heap' = Append(heap, NewSession(m, sid))
    /\ managers' = [managers EXCEPT ![m] = Register(managers[m], sid, Len(heap) + 1)]
    /\ loc' = [loc EXCEPT ![t] = [mgr |-> m, sid |-> sid, ctx |-> Len(heap) + 1]]

\* QueryContext.add_query(question, response_type, response_data, transcript_id)
\* on the session at address a; response_data carries the session_id the
\* handler answers with (line 781).
AddQuery(a, q, rtype, sid) ==
    heap' = [heap EXCEPT ![a].history =
                Append(@, [question |-> q, response_type |-> rtype, session_id |-> sid])]

\* QueryContext.add_context(payload) on the session at address a.
AddContext(a, payload) == heap' = [heap EXCEPT ![a].context = Append(@, payload)]

\* Session ids a client can send: ids of its own choosing, and ids the
\* server has handed out.
SuppliedIds == {"s1", "s2"}
KnownIds == UNION {DOMAIN managers[m] : m \in Threads}
Questions == {"why", "", " "}

\* The question taken as it was sent.
Strip_Identity(q) == q

\* str.strip() of the questions above.
Strip(q) == IF q = " " THEN "" ELSE q

Count(m, sid) == IF sid \in DOMAIN okQueries[m] THEN okQueries[m][sid] ELSE 0

\* POST /api/query, lines 738-799.
StartQuery(t) ==
    \E sid \in SuppliedIds \cup KnownIds \cup {""}, q \in Questions :
        Begin(t, "query", [NoArg EXCEPT !.sid = sid, !.question = q], "ld95")

\* lines 754-768: the handler reads the cache, checks the question and
\* chooses between get_session and create_session.
Query754(t) ==
    /\ pc[t] = "body"
    /\ op[t] = "query"
    /\ IF Strip(arg[t].question) = ""
       THEN Respond(t, 400, FALSE, "No question provided", "")
       ELSE IF cache.session_manager = 0
       THEN \* session_manager is None: AttributeError, caught at line 797
            Respond(t, 500, FALSE, "error", "")
       ELSE /\ loc' = [loc EXCEPT ![t] = [mgr |-> cache.session_manager,
                                          sid |-> arg[t].sid, ctx |-> 0]]
            /\ Goto(t, IF arg[t].sid # "" THEN "q769" ELSE "q773")
            /\ Quiet
            /\ UNCHANGED <<op, arg, ret>>
    /\ UNCHANGED <<cache, envVars, managers, heap, nextId, okQueries,
                   detectors, engines, builders, reqs>>

\* lines 769-770: context = session_manager.get_session(session_id).
Query769(t) ==
    /\ pc[t] = "q769"
    /\ LET a == GetSession(loc[t].mgr, loc[t].sid) IN
         /\ loc' = [loc EXCEPT ![t].ctx = a]
         /\ Goto(t, IF a = 0 THEN "q771" ELSE "q785")
    /\ Quiet
    /\ UNCHANGED <<cache, envVars, managers, heap, nextId, okQueries, op, arg, ret,
                   detectors, engines, builders, reqs>>

\* line 771: context = session_manager.create_session(session_id).
Query771(t) ==
    /\ pc[t] = "q771"
    /\ CreateSession(t, loc[t].mgr, loc[t].sid)
    /\ Goto(t, "q785")
    /\ Quiet
    /\ UNCHANGED <<cache, envVars, nextId, okQueries, op, arg, ret,
                   detectors, engines, builders, reqs>>

\* Line 773 as it would be with the last generated id given again.
Query773_ReusedId(t) ==
    /\ pc[t] = "q773"
    /\ nextId' = nextId
    /\ CreateSession(t, loc[t].mgr, GeneratedId(nextId))
    /\ Goto(t, "q785")
    /\ Quiet
    /\ UNCHANGED <<cache, envVars, okQueries, op, arg, ret,
                   detectors, engines, builders, reqs>>

\* lines 773-774: context = session_manager.create_session();
\* session_id = context.session_id.
Query773(t) ==
    /\ pc[t] = "q773"
    /\ nextId' = nextId + 1
    /\ CreateSession(t, loc[t].mgr, GeneratedId(nextId + 1))
    /\ Goto(t, "q785")
    /\ Quiet
    /\ UNCHANGED <<cache, envVars, okQueries, op, arg, ret,
                   detectors, engines, builders, reqs>>

\* Line 785 as it would be with one history shared by all sessions.
Query785_FirstSession(t) ==
    /\ pc[t] = "q785"
    /\ AddQuery(1, Strip(arg[t].question), "followup", loc[t].sid)
    /\ okQueries' = [okQueries EXCEPT ![loc[t].mgr] =
                        Register(@, loc[t].sid, Count(loc[t].mgr, loc[t].sid) + 1)]
    /\ Respond(t, 200, TRUE, "followup", loc[t].sid)
    /\ UNCHANGED <<cache, envVars, managers, nextId, detectors, engines, builders, reqs>>

\* lines 778-796: the response is built, the query is recorded in the
\* session the handler holds, and the response is returned.
Query785(t) ==
    /\ pc[t] = "q785"
    /\ AddQuery(loc[t].ctx, Strip(arg[t].question), "followup", loc[t].sid)
    /\ okQueries' = [okQueries EXCEPT ![loc[t].mgr] =
                        Register(@, loc[t].sid, Count(loc[t].mgr, loc[t].sid) + 1)]
    /\ Respond(t, 200, TRUE, "followup", loc[t].sid)
    /\ UNCHANGED <<cache, envVars, managers, nextId, detectors, engines, builders, reqs>>

\* GET /api/session/<session_id>, lines 832-850.
StartSession(t) ==
    \E sid \in SuppliedIds \cup KnownIds :
        Begin(t, "session", [NoArg EXCEPT !.sid = sid], "s838")

GetSessionEndpoint(t) ==
    /\ pc[t] = "s838"
    /\ IF cache.session_manager = 0
       THEN \* session_manager is None: AttributeError, caught at line 848
            Respond(t, 500, FALSE, "error", "")
       ELSE IF GetSession(cache.session_manager, arg[t].sid) = 0
       THEN Respond(t, 404, FALSE, "Session not found", "")
       ELSE \* context.export_session(), line 846
            RespondData(t, 200, TRUE, "session", arg[t].sid,
                        [NoData EXCEPT
                           !.fields = {"session_id", "query_history"},
                           !.query_history =
                               heap[GetSession(cache.session_manager, arg[t].sid)].history])
    /\ UNCHANGED <<cache, envVars, managers, heap, nextId, okQueries,
                   detectors, engines, builders, reqs>>

\* ------------------------------------------------------- signal extraction
\* The value under a turn's 'text' key: kind "str" is a string holding the
\* keywords `words`; "none" is None; "falsy" a falsy non-string (0, [], False);
\* "nonstr" a truthy non-string (123, ['x']); "absent" no 'text' key at all.
\* The words of the texts, and for each word the keywords of lines 50-52
\* that python's `kw in text` finds in it (a substring test: "cannot" and
\* "know" both hold the keyword "no").
Words == {"frustrated", "angry", "wait", "cannot", "impossible", "unfortunately",
          "know", "urgent", "hello"}
KeywordsIn(w) ==
    CASE w = "cannot" -> {"cannot", "no"}
      [] w = "know"   -> {"no"}
      [] w \in {"frustrated", "angry", "wait", "impossible"} -> {w}
      [] OTHER        -> {}
frustration_keywords == {"frustrated", "angry", "upset", "disappointed", "annoyed", "furious", "mad"}
delay_keywords == {"wait", "slow", "delay", "busy", "long", "hours", "days", "minutes"}
denial_keywords == {"cannot", "denied", "no", "impossible", "can't", "won't", "refused"}

\* any(kw in text for kw in kws) for a text holding the words ws.
AnyIn(kws, ws) == \E w \in ws : KeywordsIn(w) \cap kws # {}

Str(ws) == [kind |-> "str", words |-> ws]
NoneText == [kind |-> "none", words |-> {}]
FalsyText == [kind |-> "falsy", words |-> {}]
NonStrText == [kind |-> "nonstr", words |-> {}]
AbsentText == [kind |-> "absent", words |-> {}]

\* A turn as the client sends it.
Turn(sp, tx) == [isdict |-> TRUE, speaker |-> sp, text |-> tx]

Raised == [raised |-> TRUE, signals |-> << >>]
Signals(sigs) == [raised |-> FALSE, signals |-> sigs]

\* The signals of a text without the test of lines 58-59.
KeywordSignals_NoDenial(ws) ==
    (IF AnyIn(frustration_keywords, ws) THEN <<"customer_frustration">> ELSE << >>)
    \o (IF AnyIn(delay_keywords, ws) THEN <<"agent_delay">> ELSE << >>)

\* The signals of a text holding the words ws, in the order of lines 54-59.
KeywordSignals(ws) ==
    (IF AnyIn(frustration_keywords, ws) THEN <<"customer_frustration">> ELSE << >>)
    \o (IF AnyIn(delay_keywords, ws) THEN <<"agent_delay">> ELSE << >>)
    \o (IF AnyIn(denial_keywords, ws) THEN <<"agent_denial">> ELSE << >>)

\* extract_signals_fallback, lines 45-61: (turn.get('text', '') or '').lower()
\* raises AttributeError for a truthy value that is not a string.
extract_signals_fallback(turn) ==
    CASE turn.text.kind = "nonstr" -> Raised
      [] turn.text.kind = "str"    -> Signals(KeywordSignals(turn.text.words))
      [] OTHER                     -> Signals(<< >>)

\* The vocabulary of src.signal_extraction, as the spec's 4.1 gives it: an
\* extensible mapping from signal type to cue terms, matched on the words
\* of the text; here the three types of the spec and one added type.
VocabularySignals(ws) ==
    (IF ws \cap {"frustrated", "angry"} # {} THEN <<"customer_frustration">> ELSE << >>)
    \o (IF "wait" \in ws THEN <<"agent_delay">> ELSE << >>)
    \o (IF ws \cap {"cannot", "impossible"} # {} THEN <<"agent_denial">> ELSE << >>)
    \o (IF "urgent" \in ws THEN <<"escalation_request">> ELSE << >>)

\* extract_signals of src.signal_extraction, as the spec's 4.1 gives it:
\* the signal types of the turn's text, nothing for a malformed text.
extract_signals_module(turn) ==
    IF turn.text.kind = "str" THEN Signals(VocabularySignals(turn.text.words)) ELSE Signals(<< >>)

\* The name extract_signals after lines 18-25 and 64-69.
extract_signals(turn) ==
    IF hasSignals THEN extract_signals_module(turn) ELSE extract_signals_fallback(turn)

\* Lines 921-929 for one turn: extract_signals, and on an exception the
\* fallback, whose own exception leaves the loop.
TurnSignals(turn) ==
    IF extract_signals(turn).raised THEN extract_signals_fallback(turn) ELSE extract_signals(turn)

FirstInvalid_Last(tr) ==
    LET bad == {i \in 1..Len(tr) : ~tr[i].isdict \/ tr[i].speaker = "" \/ tr[i].text.kind = "absent"}
    IN IF bad = {} THEN 0 ELSE CHOOSE i \in bad : \A j \in bad : i >= j

\* Lines 891-900: the index of the first turn that fails the validation, 0 if none.
FirstInvalid(tr) ==
    LET bad == {i \in 1..Len(tr) : ~tr[i].isdict \/ tr[i].speaker = "" \/ tr[i].text.kind = "absent"}
    IN IF bad = {} THEN 0 ELSE CHOOSE i \in bad : \A j \in bad : i <= j

\* Lines 916-937: TRUE when the extraction loop raises.
AnalyzeRaises(tr) == \E i \in 1..Len(tr) : TurnSignals(tr[i]).raised

RECURSIVE AllSignals(_)
\* all_signals of lines 917-937: the turns' signals, concatenated in turn order.
AllSignals(tr) ==
    IF Len(tr) = 0 THEN << >>
    ELSE AllSignals(SubSeq(tr, 1, Len(tr) - 1)) \o TurnSignals(tr[Len(tr)]).signals

\* turn_signals of lines 918-935: the signals of each turn, by turn number.
TurnSignalsOf(tr) == [i \in 1..Len(tr) |-> TurnSignals(tr[i]).signals]

Range(q) == {q[i] : i \in 1..Len(q)}
Min(a, b) == IF a <= b THEN a ELSE b

RECURSIVE FirstOccurrences(_)
\* The loop of lines 1033-1039: a signal is appended when it was not seen.
FirstOccurrences(sigs) ==
    IF Len(sigs) = 0 THEN << >>
    ELSE LET chain == FirstOccurrences(SubSeq(sigs, 1, Len(sigs) - 1))
             signal == sigs[Len(sigs)]
         IN IF signal \in Range(chain) THEN chain ELSE Append(chain, signal)

\* chain[:3] of line 1042.
ChainLimit == 3

\* The chain without the limit of line 1042.
extract_causal_chain_Uncapped(turns, all_signals, turn_signals) ==
    FirstOccurrences(all_signals)

\* extract_causal_chain, lines 1031-1042.
extract_causal_chain(turns, all_signals, turn_signals) ==
    LET chain == FirstOccurrences(all_signals)
    IN SubSeq(chain, 1, Min(ChainLimit, Len(chain)))

\* signal_names of lines 1051-1055.
signal_names ==
    [s \in {"customer_frustration", "agent_delay", "agent_denial"} |->
        CASE s = "customer_frustration" -> "customer frustration"
          [] s = "agent_delay" -> "agent delays"
          [] s = "agent_denial" -> "agent denials"]

\* A replacement that stops after the first underscore, as s.replace('_', ' ', 1).
ReplaceUnderscores_First(s) ==
    CASE s = "escalation_request" -> "escalation request"
      [] s = "agent_rude_tone" -> "agent rude_tone"
      [] OTHER -> s

\* s.replace('_', ' ') for the signal names that are not in the table.
ReplaceUnderscores(s) ==
    CASE s = "escalation_request" -> "escalation request"
      [] s = "agent_rude_tone" -> "agent rude tone"
      [] OTHER -> s

\* signal_names.get(s, s.replace('_', ' '))
ReadableName(s) == IF s \in DOMAIN signal_names THEN signal_names[s] ELSE ReplaceUnderscores(s)

RECURSIVE Join_Reversed(_, _)
\* The parts joined last to first.
Join_Reversed(parts, sep) ==
    IF Len(parts) = 0 THEN << >>
    ELSE IF Len(parts) = 1 THEN parts
    ELSE <<parts[Len(parts)], sep>> \o Join_Reversed(SubSeq(parts, 1, Len(parts) - 1), sep)

RECURSIVE Join(_, _)
\* sep.join(parts), as the pieces of the resulting string.
Join(parts, sep) ==
    IF Len(parts) = 0 THEN << >>
    ELSE IF Len(parts) = 1 THEN parts
    ELSE Join(SubSeq(parts, 1, Len(parts) - 1), sep) \o <<sep, parts[Len(parts)]>>

\* The explanation chosen by what was detected instead of by the chain.
generate_explanation_BySignals(causal_chain, turns, all_signals) ==
    IF Len(all_signals) = 0
    THEN <<"No escalation signals detected in this conversation.">>
    ELSE <<"The primary escalation factor in this conversation was ",
           ReadableName(all_signals[1]),
           ". This pattern was present throughout the interaction and contributed to the negative outcome.">>

\* generate_explanation, lines 1045-1071; the text is the sequence of the
\* pieces the f-string puts together.
generate_explanation(causal_chain, turns, all_signals) ==
    IF Len(causal_chain) = 0
    THEN <<"No escalation signals detected in this conversation.">>
    ELSE IF Len(causal_chain) = 1
    THEN <<"The primary escalation factor in this conversation was ",
           ReadableName(causal_chain[1]),
           ". This pattern was present throughout the interaction and contributed to the negative outcome.">>
    ELSE IF Len(causal_chain) = 2
    THEN <<"This conversation shows a sequence of escalation factors: First, ",
           ReadableName(causal_chain[1]),
           " was present. Then, ",
           ReadableName(causal_chain[2]),
           " occurred, which compounded the issue. Together, these factors led to escalation.">>
    ELSE <<"This conversation demonstrates a critical escalation sequence: ">>
         \o Join([i \in 1..(Len(causal_chain) - 1) |-> ReadableName(causal_chain[i])], ", ")
         \o <<", and finally ",
              ReadableName(causal_chain[Len(causal_chain)]),
              ". At each stage, the situation deteriorated, leading to a clear escalation pattern.">>

RECURSIVE extract_evidence_Capped(_, _)
\* The evidence list with the cap of the causal chain put on it.
extract_evidence_Capped(turns, turn_signals) ==
    IF Len(turns) = 0 THEN << >>
    ELSE LET n == Len(turns)
             before == extract_evidence_Capped(SubSeq(turns, 1, n - 1), turn_signals)
         IN IF Len(turn_signals[n]) > 0 /\ Len(before) < ChainLimit - 1
            THEN Append(before, [turn_number |-> n, speaker |-> turns[n].speaker,
                                 text |-> turns[n].text, signals |-> turn_signals[n]])
            ELSE before

RECURSIVE extract_evidence(_, _)
\* extract_evidence, lines 1074-1090: one item per turn with signals, in
\* the order of the turns.
extract_evidence(turns, turn_signals) ==
    IF Len(turns) = 0 THEN << >>
    ELSE LET n == Len(turns)
             before == extract_evidence(SubSeq(turns, 1, n - 1), turn_signals)
         IN IF Len(turn_signals[n]) > 0
            THEN Append(before, [turn_number |-> n, speaker |-> turns[n].speaker,
                                 text |-> turns[n].text, signals |-> turn_signals[n]])
            ELSE before

RECURSIVE SumSeq(_)
SumSeq(q) == IF Len(q) = 0 THEN 0 ELSE SumSeq(SubSeq(q, 1, Len(q) - 1)) + q[Len(q)]

\* min(1.0, x) for a fraction x.
CapAtOne(x) == IF x.num > x.den THEN [num |-> 1, den |-> 1] ELSE x

\* calculate_risk_score, lines 1008-1028, as the exact fraction:
\* min(1, S/T) * 0.6 + (avg position / T) * 0.4.
calculate_risk_score(turns, all_signals, turn_signals) ==
    IF Len(all_signals) = 0 THEN [num |-> 0, den |-> 1]
    ELSE LET T == Len(turns)
             signal_positions == SelectSeq([i \in 1..T |-> i], LAMBDA i : Len(turn_signals[i]) > 0)
             P == Len(signal_positions)
         IN IF P = 0
            THEN CapAtOne([num |-> Min(Len(all_signals), T), den |-> T])
            ELSE CapAtOne([num |-> 6 * Min(Len(all_signals), T) * P + 4 * SumSeq(signal_positions),
                           den |-> 10 * P * T])

\* The float risk_score is the exact fraction above up to the rounding of
\* the two products and the sum of line 1026. The rounding only shows in
\* the comparison of line 946 when the fraction is 6/10: the float is then
\* below, at or above the float 0.6. Elsewhere it is taken as 0.
Roundings(tr) ==
    LET risk_score == calculate_risk_score(tr, AllSignals(tr), TurnSignalsOf(tr))
    IN IF 10 * risk_score.num = 6 * risk_score.den THEN {-1, 0, 1} ELSE {0}

\* risk_score >= 0.6.
Exceeds_OrEqual(risk_score, rounding) ==
    \/ 10 * risk_score.num > 6 * risk_score.den
    \/ 10 * risk_score.num = 6 * risk_score.den /\ rounding >= 0

\* risk_score > 0.6, line 946.
Exceeds(risk_score, rounding) ==
    \/ 10 * risk_score.num > 6 * risk_score.den
    \/ 10 * risk_score.num = 6 * risk_score.den /\ rounding > 0

\* The keys of `result`, lines 977-988.
AnalysisFields == {"risk_score", "escalated", "detected_signals", "causal_chain",
                   "causal_explanation", "confidence", "evidence", "turn_signals",
                   "turn_count", "signal_count"}

\* `result` of lines 941-988 for a transcript whose extraction did not
\* raise, the float risk_score being rounded as `rounding` says.
Analysis(tr, rounding) ==
    LET all_signals == AllSignals(tr)
        turn_signals == TurnSignalsOf(tr)
        risk_score == calculate_risk_score(tr, all_signals, turn_signals)
        causal_chain == extract_causal_chain(tr, all_signals, turn_signals)
    IN [NoData EXCEPT
          !.fields = AnalysisFields,
          !.risk_score = risk_score,
          !.risk_rounding = rounding,
          !.escalated = Exceeds(risk_score, rounding),
          !.detected_signals = Range(all_signals),
          !.causal_chain = causal_chain,
          !.causal_explanation = generate_explanation(causal_chain, tr, all_signals),
          !.confidence = CapAtOne([num |-> 10 + Len(all_signals), den |-> 20]),
          !.evidence = extract_evidence(tr, turn_signals),
          !.turn_signals = turn_signals,
          !.turn_count = Len(tr),
          !.signal_count = Len(all_signals)]

\* The payload /api/analyze attaches for the transcript tr (lines 961-970).
PayloadOf(tr, rounding) ==
    LET result == Analysis(tr, rounding)
    IN [transcript |-> tr,
        analysis |-> [risk_score |-> result.risk_score,
                      escalated |-> result.escalated,
                      causal_chain |-> result.causal_chain,
                      detected_signals |-> result.detected_signals,
                      evidence |-> result.evidence]]

\* ------------------------------------------- generate_explanation, called
\* The chains generate_explanation is called with: up to MaxChainLen names,
\* three of the synonym table and three that are not in it; and the values of
\* its arguments that the text does not depend on.
MaxChainLen == 4
SignalNames == {"customer_frustration", "agent_delay", "agent_denial",
                "escalation_request", "agent_rude_tone", "churn"}
Chains == UNION {[1..n -> SignalNames] : n \in 0..MaxChainLen}
SignalLists == {<< >>, <<"agent_delay">>}

\* A caller is about to call generate_explanation(causal_chain, turns, all_signals).
StartExplanation(t) ==
    /\ pc[t] = "idle"
    /\ reqs < MaxRequests
    /\ \E chain \in Chains, sigs \in SignalLists :
          Begin(t, "generate_explanation",
                [NoArg EXCEPT !.chain = chain, !.all_signals = sigs], "ge1047")

\* The call, lines 1047-1071; the caller keeps the text.
GenerateExplanation(t) ==
    /\ pc[t] = "ge1047"
    /\ ret' = [ret EXCEPT ![t] = [NoRet EXCEPT !.via = "returned",
                  !.text = generate_explanation(arg[t].chain, << >>, arg[t].all_signals)]]
    /\ Goto(t, "again")
    /\ Quiet
    /\ UNCHANGED <<cache, envVars, sessVars, op, arg, detectors, engines, builders, reqs>>

\* A second call with the same chain and other values of the other arguments.
GenerateAgain(t) ==
    /\ pc[t] = "again"
    /\ \E sigs \in SignalLists :
          resp' = [NoResp EXCEPT !.thread = t, !.op = op[t],
                      !.arg = [arg[t] EXCEPT !.all_signals = sigs],
                      !.via = "returned", !.status = 200, !.success = TRUE,
                      !.data = [NoData EXCEPT !.causal_explanation =
                                   generate_explanation(arg[t].chain, << >>, sigs)]]
    /\ Goto(t, "done")
    /\ UNCHANGED <<cache, envVars, sessVars, op, arg, ret, detectors, engines, builders, reqs>>

\* The caller drops both texts.
EndExplanation(t) ==
    /\ pc[t] = "done"
    /\ Finish(t)
    /\ Quiet
    /\ UNCHANGED <<cache, envVars, managers, heap, nextId, okQueries,
                   detectors, engines, builders, reqs>>

\* ----------------------------------------------------------- /api/analyze
\* The transcripts posted to /api/analyze next to the session requests.
SessionTranscripts ==
    { << >>,
      <<Turn("CUSTOMER", Str({"frustrated"})), Turn("AGENT", Str({"cannot"}))>>,
      <<Turn("CUSTOMER", NoneText), Turn("AGENT", FalsyText)>>,
      <<Turn("CUSTOMER", NonStrText)>>,
      <<Turn("CUSTOMER", AbsentText)>> }

\* The transcripts posted to /api/analyze when it is looked at alone: up to
\* MaxTurns turns, each a well-formed turn, a turn with a malformed text, a
\* turn without 'text', a turn without 'speaker', or a value that is no dict.
MaxTurns == 3
NoDict == [isdict |-> FALSE, speaker |-> "", text |-> AbsentText]
AnalyzeTurns ==
    { Turn("CUSTOMER", Str({})),
      Turn("CUSTOMER", Str({"hello"})),
      Turn("CUSTOMER", Str({"frustrated", "angry"})),
      Turn("AGENT", Str({"wait"})),
      Turn("AGENT", Str({"unfortunately", "cannot", "impossible"})),
      Turn("CUSTOMER", Str({"know"})),
      Turn("CUSTOMER", Str({"urgent"})),
      Turn("CUSTOMER", Str({"frustrated", "wait", "cannot", "urgent"})),
      Turn("CUSTOMER", NoneText),
      Turn("CUSTOMER", NonStrText),
      Turn("CUSTOMER", AbsentText),
      Turn("", Str({"wait"})),
      NoDict }
AnalyzeTranscripts == UNION {[1..n -> AnalyzeTurns] : n \in 0..MaxTurns}

StartAnalyzeAlone(t) ==
    /\ pc[t] = "idle"
    /\ reqs < MaxRequests
    /\ \E tr \in AnalyzeTranscripts :
          Begin(t, "analyze", [NoArg EXCEPT !.transcript = tr], "a886")

\* POST /api/analyze, lines 862-1005 (the handler does not call load_data).
StartAnalyze(t) ==
    \E tr \in SessionTranscripts : Begin(t, "analyze", [NoArg EXCEPT !.transcript = tr], "a886")

\* lines 886-958: validation, the analysis, and the look at the session manager.
Analyze886(t) ==
    /\ pc[t] = "a886"
    /\ LET tr == arg[t].transcript IN
       IF Len(tr) = 0
       THEN Respond(t, 400, FALSE, "No transcript provided", "")
       ELSE IF FirstInvalid(tr) # 0
       THEN Respond(t, 400, FALSE,
                    "Invalid transcript format at turn " \o ToString(FirstInvalid(tr)), "")
       ELSE IF AnalyzeRaises(tr)
       THEN Respond(t, 500, FALSE, "error", "")
       ELSE IF cache.session_manager = 0
       THEN \E r \in Roundings(tr) : RespondData(t, 200, TRUE, "analysis", "", Analysis(tr, r))
       ELSE /\ loc' = [loc EXCEPT ![t] = [mgr |-> cache.session_manager, sid |-> "", ctx |-> 0]]
            /\ Goto(t, "a960")
            /\ Quiet
            /\ UNCHANGED <<op, arg, ret>>
    /\ UNCHANGED <<cache, envVars, managers, heap, nextId, okQueries,
                   detectors, engines, builders, reqs>>

\* line 960: session = session_manager.create_session(); an exception is
\* caught at line 972 and the analysis is returned without a session id.
Analyze960(t) ==
    /\ pc[t] = "a960"
    /\ \E o \in CallOutcomes :
         IF o = "raise"
         THEN /\ \E r \in Roundings(arg[t].transcript) :
                    RespondData(t, 200, TRUE, "analysis", "", Analysis(arg[t].transcript, r))
              /\ UNCHANGED <<managers, heap, nextId>>
         ELSE /\ nextId' = nextId + 1
              /\ CreateSession(t, loc[t].mgr, GeneratedId(nextId + 1))
              /\ Goto(t, "a961")
              /\ Quiet
              /\ UNCHANGED <<op, arg, ret>>
    /\ UNCHANGED <<cache, envVars, okQueries, detectors, engines, builders, reqs>>

\* lines 961-999: session.add_context({...}), session_id = session.session_id,
\* and the response.
Analyze961(t) ==
    /\ pc[t] = "a961"
    /\ \E o \in CallOutcomes :
         IF o = "raise"
         THEN /\ \E r \in Roundings(arg[t].transcript) :
                    RespondData(t, 200, TRUE, "analysis", "", Analysis(arg[t].transcript, r))
              /\ UNCHANGED heap
         ELSE \E r \in Roundings(arg[t].transcript) :
                 /\ AddContext(loc[t].ctx, PayloadOf(arg[t].transcript, r))
                 /\ RespondData(t, 200, TRUE, "analysis", loc[t].sid,
                                Analysis(arg[t].transcript, r))
    /\ UNCHANGED <<cache, envVars, managers, nextId, okQueries,
                   detectors, engines, builders, reqs>>

\* ------------------------------------------------------- causal endpoints
\* The transcripts of the corpus in which a signal is detected (T1), and so
\* the ones whose instance sequence has a chain key in the statistics.
WithSignals == {"T1"}

\* CausalQueryEngine.explain_escalation(id) on engine e, as the spec's 4.3
\* gives it: an Explanation when the transcript is known and a prefix of its
\* sequence is a stored chain key, nothing otherwise.
ExplainEscalation(e, id) ==
    IF /\ \E i \in 1..Len(engines[e].ids) : engines[e].ids[i] = id
       /\ id \in WithSignals
       /\ engines[e].det # 0
       /\ detectors[engines[e].det] = "computed"
    THEN "explanation" ELSE "none"

\* CausalQueryEngine.find_similar_cases(id, top_k) on engine e, as the spec's
\* 4.3 gives it: the other transcripts with the same matched chain key.
FindSimilarCases(e, id) ==
    IF ExplainEscalation(e, id) = "none" THEN << >>
    ELSE SelectSeq(engines[e].ids, LAMBDA x : x # id /\ x \in WithSignals)

ExplainIds == {"T1", "T2", "TX"}

\* GET /api/explain/<transcript_id>, lines 627-661.
StartExplain(t) ==
    \E id \in ExplainIds : Begin(t, "explain", [NoArg EXCEPT !.id = id], "ld95")

\* The answer of lines 631-661 for transcript id in the present state of
\* the cache.
ExplainResult(id) ==
    IF cache.query_engine = 0
    THEN \* query_engine is None: AttributeError, caught at line 659
         [status |-> 500, success |-> FALSE, body |-> "error"]
    ELSE IF ExplainEscalation(cache.query_engine, id) = "none"
    THEN [status |-> 404, success |-> FALSE, body |-> "not found or cannot be analyzed"]
    ELSE [status |-> 200, success |-> TRUE, body |-> "explanation"]

ExplainTranscript(t) ==
    /\ pc[t] = "body"
    /\ op[t] = "explain"
    /\ LET r == ExplainResult(arg[t].id) IN Respond(t, r.status, r.success, r.body, "")
    /\ UNCHANGED <<cache, envVars, managers, heap, nextId, okQueries,
                   detectors, engines, builders, reqs>>

\* GET /api/similar/<transcript_id>, lines 664-685.
StartSimilar(t) ==
    \E id \in ExplainIds : Begin(t, "similar", [NoArg EXCEPT !.id = id], "ld95")

\* top_k=10 of line 674; find_similar_cases returns at most top_k ids.
TopK == 10
FindSimilarTopK(e, id, top_k) ==
    LET all == FindSimilarCases(e, id) IN SubSeq(all, 1, Min(top_k, Len(all)))

FindSimilar(t) ==
    /\ pc[t] = "body"
    /\ op[t] = "similar"
    /\ IF cache.query_engine = 0
       THEN \* query_engine is None: AttributeError, caught at line 683
            Respond(t, 500, FALSE, "error", "")
       ELSE LET similar_ids == FindSimilarTopK(cache.query_engine, arg[t].id, TopK)
            IN RespondData(t, 200, TRUE,
                           IF Len(similar_ids) = 0 THEN "empty list" ELSE "list", "",
                           [NoData EXCEPT
                              !.fields = {"reference_transcript", "similar_cases", "count"},
                              !.similar_cases = similar_ids,
                              !.count = Len(similar_ids)])
    /\ UNCHANGED <<cache, envVars, managers, heap, nextId, okQueries,
                   detectors, engines, builders, reqs>>

\* detector.chain_stats, an insertion-ordered dict, as the sequence of its
\* items. A confidence is escalated_count / occurrences in ten-thousandths.
\* The statistics of the corpus CorpusIds have the one key of T1; "large"
\* is the detector of a corpus with NumChains chain keys of mixed
\* confidence and evidence.
NumChains == 60
ChainEntry(key, esc, occ) ==
    [key |-> key, confidence |-> (esc * 10000) \div occ, occurrences |-> occ]
LargeStats ==
    [i \in 1..NumChains |->
        LET occ == 1 + ((i * 7) % 9)
        IN ChainEntry(<<ToString(i)>>, (i * 5) % (occ + 1), occ)]
ChainStatsOf(o) ==
    CASE detectors[o] = "computed" -> <<ChainEntry(<<"customer_frustration">>, 1, 1)>>
      [] detectors[o] = "large"    -> LargeStats
      [] OTHER                     -> << >>

\* round(x, 3) of a confidence, in thousandths.
Round3(conf) == (conf + 5) \div 10

\* The place of item i in an ascending order.
Place_Ascending(chains, i) ==
    1 + Cardinality({j \in 1..Len(chains) :
                        \/ chains[j].confidence < chains[i].confidence
                        \/ chains[j].confidence = chains[i].confidence /\ j < i})

\* chains.sort(key=confidence, reverse=True) of line 720 is stable: item i
\* comes after every item of a higher confidence and after every earlier
\* item of the same confidence.
Place(chains, i) ==
    1 + Cardinality({j \in 1..Len(chains) :
                        \/ chains[j].confidence > chains[i].confidence
                        \/ chains[j].confidence = chains[i].confidence /\ j < i})

SortByConfidence(chains) ==
    [k \in 1..Len(chains) |->
        chains[CHOOSE i \in 1..Len(chains) : Place(chains, i) = k]]

\* chains[:50] of line 729, and the defaults of lines 702-703 (0.3 and 5).
ChainCap == 50
DefaultMinConfidence == 3000
DefaultMinEvidence == 5

\* `result` of lines 705-730 for the statistics stats.
ChainStatsResult(stats, min_confidence, min_evidence) ==
    LET passing == SelectSeq(stats, LAMBDA e : e.confidence >= min_confidence
                                               /\ e.occurrences >= min_evidence)
        chains == SortByConfidence([i \in 1..Len(passing) |->
                      [chain |-> passing[i].key,
                       confidence |-> Round3(passing[i].confidence),
                       occurrences |-> passing[i].occurrences]])
    IN [NoData EXCEPT
          !.fields = {"total_chains", "filtered_chains", "filters_applied", "chains"},
          !.total_chains = Len(stats),
          !.filtered_chains = Len(chains),
          !.chains = SubSeq(chains, 1, Min(ChainCap, Len(chains)))]

\* GET /api/chain-stats, lines 688-735, with the default filters.
StartChainStats(t) ==
    Begin(t, "chain_stats",
          [NoArg EXCEPT !.min_confidence = DefaultMinConfidence,
                        !.min_evidence = DefaultMinEvidence], "ld95")

\* GET /api/chain-stats?min_confidence=..&min_evidence=..
MinConfidences == {0, DefaultMinConfidence, 5000}
MinEvidences == {0, DefaultMinEvidence}
StartChainStatsWith(t) ==
    /\ pc[t] = "idle"
    /\ reqs < MaxRequests
    /\ \E c \in MinConfidences, e \in MinEvidences :
          Begin(t, "chain_stats", [NoArg EXCEPT !.min_confidence = c, !.min_evidence = e], "ld95")

GetChainStats(t) ==
    /\ pc[t] = "body"
    /\ op[t] = "chain_stats"
    /\ IF cache.detector = 0
       THEN \* detector is None: AttributeError, caught at line 733
            Respond(t, 500, FALSE, "error", "")
       ELSE LET result == ChainStatsResult(ChainStatsOf(cache.detector),
                                           arg[t].min_confidence, arg[t].min_evidence)
            IN RespondData(t, 200, TRUE,
                           IF Len(result.chains) = 0 THEN "empty list" ELSE "list", "", result)
    /\ UNCHANGED <<cache, envVars, managers, heap, nextId, okQueries,
                   detectors, engines, builders, reqs>>

\* ---------------------------------------------------------- data endpoints
\* `not x` of python for a list load_data() returned.
Falsy(l) == ~l.set \/ Len(l.items) = 0

DataFrame == <<cache, envVars, managers, heap, nextId, okQueries,
               detectors, engines, builders, reqs>>

\* GET /api/health, lines 1093-1096: no load_data(), a constant answer.
StartHealth(t) == Begin(t, "health", NoArg, "body")

Health(t) ==
    /\ pc[t] = "body"
    /\ op[t] = "health"
    /\ Respond(t, 200, TRUE, "running", "")
    /\ UNCHANGED DataFrame

\* GET /api/stats, lines 164-211: defaults without data (172), the computed
\* figures (199), the fallback of the except clause (204).
StartStats(t) == Begin(t, "stats", NoArg, "ld95")

\* The except clause as get_transcript has it: the error and HTTP 500.
GetStatsRaised_500(t) == Respond(t, 500, FALSE, "error", "")
\* lines 200-211: the except clause answers with the fallback figures.
GetStatsRaised(t) == Respond(t, 200, TRUE, "fallback", "")

GetStats(t) ==
    /\ pc[t] = "body"
    /\ op[t] = "stats"
    /\ IF Falsy(ret[t].transcripts) \/ Falsy(ret[t].processed)
       THEN Respond(t, 200, TRUE, "default", "")
       ELSE \E o \in CallOutcomes :
              IF o = "raise" THEN GetStatsRaised(t)
              ELSE Respond(t, 200, TRUE, "computed", "")
    /\ UNCHANGED DataFrame

\* GET /api/causes, lines 213-268: analyze_causes() may raise and is then
\* replaced by sample figures (229-236); the except clause of 260 covers
\* the rest.
StartCauses(t) == Begin(t, "causes", NoArg, "ld95")

GetCauses(t) ==
    /\ pc[t] = "body"
    /\ op[t] = "causes"
    /\ IF Falsy(ret[t].processed)
       THEN Respond(t, 200, TRUE, "default", "")
       ELSE \E analyze \in CallOutcomes, rest \in CallOutcomes :
              IF rest = "raise" THEN Respond(t, 200, TRUE, "fallback", "")
              ELSE IF analyze = "raise" THEN Respond(t, 200, TRUE, "sample", "")
              ELSE Respond(t, 200, TRUE, "computed", "")
    /\ UNCHANGED DataFrame

\* GET /api/signals, lines 270-340: a turn whose extract_signals() raises
\* is skipped (305), a failure of the counting gives the complete fallback
\* (320), the except clause of 332 covers the rest.
StartSignals(t) == Begin(t, "signals", NoArg, "ld95")

GetSignals(t) ==
    /\ pc[t] = "body"
    /\ op[t] = "signals"
    /\ IF Falsy(ret[t].processed)
       THEN Respond(t, 200, TRUE, "default", "")
       ELSE \E extract \in CallOutcomes, count \in CallOutcomes, rest \in CallOutcomes :
              IF rest = "raise" THEN Respond(t, 200, TRUE, "fallback", "")
              ELSE IF count = "raise" THEN Respond(t, 200, TRUE, "sample", "")
              ELSE IF extract = "raise" THEN Respond(t, 200, TRUE, "estimate", "")
              ELSE Respond(t, 200, TRUE, "computed", "")
    /\ UNCHANGED DataFrame

\* GET /api/warnings, lines 342-428: a conversation whose analysis raises
\* is skipped (393), a failure of the loop gives the fallback values (403),
\* the except clause of 418 covers the rest.
StartWarnings(t) == Begin(t, "warnings", NoArg, "ld95")

GetWarnings(t) ==
    /\ pc[t] = "body"
    /\ op[t] = "warnings"
    /\ IF Falsy(ret[t].processed)
       THEN Respond(t, 200, TRUE, "default", "")
       ELSE \E loop \in CallOutcomes, rest \in CallOutcomes :
              IF rest = "raise" THEN Respond(t, 200, TRUE, "fallback", "")
              ELSE IF loop = "raise" THEN Respond(t, 200, TRUE, "sample", "")
              ELSE Respond(t, 200, TRUE, "computed", "")
    /\ UNCHANGED DataFrame

\* GET /api/domains, lines 430-460.
StartDomains(t) == Begin(t, "domains", NoArg, "ld95")

GetDomains(t) ==
    /\ pc[t] = "body"
    /\ op[t] = "domains"
    /\ IF Falsy(ret[t].transcripts)
       THEN Respond(t, 200, TRUE, "default", "")
       ELSE \E o \in CallOutcomes :
              IF o = "raise" THEN Respond(t, 200, TRUE, "fallback", "")
              ELSE Respond(t, 200, TRUE, "computed", "")
    /\ UNCHANGED DataFrame

\* GET /api/intents, lines 462-494.
StartIntents(t) == Begin(t, "intents", NoArg, "ld95")

GetIntents(t) ==
    /\ pc[t] = "body"
    /\ op[t] = "intents"
    /\ IF Falsy(ret[t].transcripts)
       THEN Respond(t, 200, TRUE, "default", "")
       ELSE \E o \in CallOutcomes :
              IF o = "raise" THEN Respond(t, 200, TRUE, "fallback", "")
              ELSE Respond(t, 200, TRUE, "computed", "")
    /\ UNCHANGED DataFrame

DataOps == {"health", "stats", "causes", "signals", "warnings", "domains", "intents"}

\* ---------------------------------------------------------- specifications
\* The loading behaviour alone: background loaders and the transcript lookup.
NextLoad ==
    \E t \in Threads : StartBackground(t) \/ StartTranscript(t) \/ LoadStep(t) \/ GetTranscript(t)

SpecLoad == Init /\ [][NextLoad]_vars

\* The cache once a build by thread 1 has run to its end with no other
\* build beside it: with the corpus (lines 105-137), with nothing loaded
\* (lines 107-112), and after an exception (lines 139-146).
LoadedCache(how) ==
    CASE how = "corpus" ->
           [InitCache EXCEPT !.transcripts = List(1, CorpusIds),
                             !.processed = List(1, CorpusTurns),
                             !.detector = 1, !.query_engine = 1, !.session_manager = 1,
                             !.loaded = TRUE]
      [] how = "empty" ->
           [InitCache EXCEPT !.transcripts = EmptyList(1), !.processed = EmptyList(1),
                             !.loaded = TRUE]
      [] how = "error" ->
           [InitCache EXCEPT !.transcripts = EmptyList(1), !.processed = EmptyList(1),
                             !.load_error = TRUE, !.loaded = TRUE]

\* The causal endpoints next to the load.
NextCausal ==
    \E t \in Threads :
        \/ StartBackground(t) \/ LoadStep(t)
        \/ StartExplain(t) \/ ExplainTranscript(t)
        \/ StartSimilar(t) \/ FindSimilar(t)
        \/ StartChainStats(t) \/ GetChainStats(t)

SpecCausal == Init /\ [][NextCausal]_vars

\* The data endpoints next to the load.
NextData ==
    \E t \in Threads :
        \/ StartBackground(t) \/ LoadStep(t)
        \/ StartHealth(t) \/ Health(t)
        \/ StartStats(t) \/ GetStats(t)
        \/ StartCauses(t) \/ GetCauses(t)
        \/ StartSignals(t) \/ GetSignals(t)
        \/ StartWarnings(t) \/ GetWarnings(t)
        \/ StartDomains(t) \/ GetDomains(t)
        \/ StartIntents(t) \/ GetIntents(t)

SpecData == Init /\ [][NextData]_vars

\* The server after its start-up load: every thread idle, the cache loaded
\* by the background loader; reqs counts the requests made from here on.
InitServing ==
    /\ \E how \in {"corpus", "empty", "error"} :
         /\ cache = LoadedCache(how)
         /\ detectors = [o \in Threads |-> IF o = 1 /\ how = "corpus" THEN "computed" ELSE "absent"]
         /\ engines = [o \in Threads |-> IF o = 1 /\ how = "corpus"
                                          THEN [det |-> 1, ids |-> CorpusIds] ELSE NoEngine]
    /\ hasCausal = TRUE
    /\ hasSignals \in BOOLEAN
    /\ pc = [t \in Threads |-> "idle"]
    /\ op = [t \in Threads |-> "none"]
    /\ arg = [t \in Threads |-> NoArg]
    /\ ret = [t \in Threads |-> NoRet]
    /\ resp = NoResp
    /\ builders = {1}
    /\ reqs = 0
    /\ managers = [o \in Threads |-> NoRegistry]
    /\ heap = << >>
    /\ loc = [t \in Threads |-> NoLoc]
    /\ nextId = 0
    /\ okQueries = [o \in Threads |-> NoRegistry]

\* One /api/analyze request, the last one the bound on requests allows,
\* in a server that has not loaded, has loaded the corpus, or has loaded
\* an empty corpus.
InitAnalyze ==
    /\ \E how \in {"none", "corpus", "empty"} :
         /\ cache = IF how = "none" THEN InitCache ELSE LoadedCache(how)
         /\ detectors = [o \in Threads |-> IF o = 1 /\ how = "corpus" THEN "computed" ELSE "absent"]
         /\ engines = [o \in Threads |-> IF o = 1 /\ how = "corpus"
                                          THEN [det |-> 1, ids |-> CorpusIds] ELSE NoEngine]
         /\ builders = IF how = "none" THEN {} ELSE {1}
    /\ hasCausal = TRUE
    /\ hasSignals \in BOOLEAN
    /\ pc = [t \in Threads |-> "idle"]
    /\ op = [t \in Threads |-> "none"]
    /\ arg = [t \in Threads |-> NoArg]
    /\ ret = [t \in Threads |-> NoRet]
    /\ resp = NoResp
    /\ reqs = MaxRequests - 1
    /\ managers = [o \in Threads |-> NoRegistry]
    /\ heap = << >>
    /\ loc = [t \in Threads |-> NoLoc]
    /\ nextId = 0
    /\ okQueries = [o \in Threads |-> NoRegistry]

NextAnalyze ==
    \E t \in Threads :
        \/ StartAnalyzeAlone(t) \/ Analyze886(t) \/ Analyze960(t) \/ Analyze961(t)

SpecAnalyze == InitAnalyze /\ [][NextAnalyze]_vars

\* generate_explanation called on its own, before any load.
InitExplain ==
    /\ cache = InitCache
    /\ detectors = [o \in Threads |-> "absent"]
    /\ engines = [o \in Threads |-> NoEngine]
    /\ builders = {}
    /\ hasCausal \in BOOLEAN
    /\ hasSignals \in BOOLEAN
    /\ pc = [t \in Threads |-> "idle"]
    /\ op = [t \in Threads |-> "none"]
    /\ arg = [t \in Threads |-> NoArg]
    /\ ret = [t \in Threads |-> NoRet]
    /\ resp = NoResp
    /\ reqs = MaxRequests - 1
    /\ managers = [o \in Threads |-> NoRegistry]
    /\ heap = << >>
    /\ loc = [t \in Threads |-> NoLoc]
    /\ nextId = 0
    /\ okQueries = [o \in Threads |-> NoRegistry]

NextExplain ==
    \E t \in Threads :
        \/ StartExplanation(t) \/ GenerateExplanation(t) \/ GenerateAgain(t) \/ EndExplanation(t)

SpecExplain == InitExplain /\ [][NextExplain]_vars

\* One /api/chain-stats request, the last one the bound on requests allows,
\* against a loaded server whose detector holds the statistics of the
\* corpus CorpusIds or those of a large corpus.
InitStats ==
    /\ cache = LoadedCache("corpus")
    /\ detectors \in {[o \in Threads |-> IF o = 1 THEN k ELSE "absent"] : k \in {"computed", "large"}}
    /\ engines = [o \in Threads |-> IF o = 1 THEN [det |-> 1, ids |-> CorpusIds] ELSE NoEngine]
    /\ builders = {1}
    /\ hasCausal = TRUE
    /\ hasSignals \in BOOLEAN
    /\ pc = [t \in Threads |-> "idle"]
    /\ op = [t \in Threads |-> "none"]
    /\ arg = [t \in Threads |-> NoArg]
    /\ ret = [t \in Threads |-> NoRet]
    /\ resp = NoResp
    /\ reqs = MaxRequests - 1
    /\ managers = [o \in Threads |-> NoRegistry]
    /\ heap = << >>
    /\ loc = [t \in Threads |-> NoLoc]
    /\ nextId = 0
    /\ okQueries = [o \in Threads |-> NoRegistry]

NextStats ==
    \E t \in Threads : StartChainStatsWith(t) \/ Load95(t) \/ GetChainStats(t)

SpecStats == InitStats /\ [][NextStats]_vars

\* The session requests against the loaded server.
NextSession ==
    \E t \in Threads :
        \/ StartQuery(t) \/ Load95(t) \/ Query754(t) \/ Query769(t) \/ Query771(t)
        \/ Query773(t) \/ Query785(t)
        \/ StartSession(t) \/ GetSessionEndpoint(t)
        \/ StartAnalyze(t) \/ Analyze886(t) \/ Analyze960(t) \/ Analyze961(t)

SpecSession == InitServing /\ [][NextSession]_vars

\* ------------------------------------------------------------------ claims
\* C1: under any interleaving of load_data() callers at most one build is
\* in flight at any time and at most one build is ever started.
C1_SingleBuild ==
    /\ Cardinality({t \in Threads : pc[t] \in BuildPcs}) <= 1
    /\ Cardinality(builders) <= 1

\* The python value of a pair load_data() returns, without the model's note
\* of the path that returned it.
PairValue(r) == <<r.transcripts.set, r.transcripts.items, r.processed.set, r.processed.items>>

\* C2: a caller of load_data() that arrives while a build is in progress
\* returns without starting a build and gets a result that differs from the
\* result of a finished load of an empty corpus; a transcript request made
\* during the build is not answered "Transcript not found".
C2_NotReadyIsExplicit ==
    /\ \A t \in Threads :
         ret[t].via = "loading" =>
            /\ t \notin builders
            /\ PairValue(ret[t]) # PairValue(EmptyPair("built"))
    /\ (resp.op = "transcript" /\ resp.via = "loading") => resp.status # 404

\* C3: once _cache['loaded'] is True no later step writes the transcripts,
\* the processed turns, the detector, the query engine or the session manager.
C3_ReadOnlyAfterBuild ==
    [][cache.loaded =>
          /\ cache'.transcripts = cache.transcripts
          /\ cache'.processed = cache.processed
          /\ cache'.detector = cache.detector
          /\ cache'.query_engine = cache.query_engine
          /\ cache'.session_manager = cache.session_manager]_vars

Sessions == 1..Len(heap)
GeneratedIds == {GeneratedId(n) : n \in 1..nextId}

\* C4: concurrent /api/query requests naming the same session_id never lose
\* an entry: when N of them have returned success, the history of the
\* session registered under that id holds exactly N queries.
C4_NoLostQuery ==
    \A m \in Threads : \A sid \in DOMAIN okQueries[m] :
        /\ sid \in DOMAIN managers[m]
        /\ Len(heap[managers[m][sid]].history) = okQueries[m][sid]

\* C5: session isolation. Every query in a session's history was recorded
\* by a request that used that session's id, and the context payload of an
\* /api/analyze request is attached to the new session it answers with and
\* to no other: no session holds more than the one payload it was created for.
C5_SessionIsolation ==
    /\ \A a \in Sessions : \A i \in 1..Len(heap[a].history) :
            heap[a].history[i].session_id = heap[a].session_id
    /\ \A a \in Sessions :
            /\ Len(heap[a].context) <= 1
            /\ Len(heap[a].context) = 1 => heap[a].session_id \in GeneratedIds
    /\ (resp.op = "analyze" /\ resp.sid # "") =>
            \A a \in Sessions :
                (Len(heap[a].context) = 1 /\ heap[a].session_id = resp.sid)
                    => heap[a].context[1] = PayloadOf(resp.arg.transcript, resp.data.risk_rounding)
    /\ (resp.op = "query" /\ resp.status = 200) =>
            \A a \in Sessions : \A i \in 1..Len(heap[a].history) :
                heap[a].history[i].session_id = resp.sid => heap[a].session_id = resp.sid

\* Two sessions with distinct ids, one with a recorded query and one with
\* the context of an analysis.
C5_Witness ==
    \E a \in Sessions, b \in Sessions :
        /\ heap[a].session_id # heap[b].session_id
        /\ Len(heap[a].history) > 0
        /\ Len(heap[b].context) > 0

Known(id) == cache.transcripts.set /\ id \in IdsOf(cache.transcripts)
NotFoundCase(id) == ~Known(id) \/ id \notin WithSignals

\* C7: explain is tri-state. An unknown id and a known transcript without a
\* signal-backed chain get answers the caller can tell apart, and a
\* not-found case is never answered with HTTP 500, whatever the load state.
C7_ExplainTriState ==
    /\ \A a \in ExplainIds, b \in ExplainIds :
            (~Known(a) /\ Known(b) /\ b \notin WithSignals /\ cache.loaded)
                => ExplainResult(a) # ExplainResult(b)
    /\ (resp.op = "explain" /\ NotFoundCase(resp.arg.id)) => resp.status # 500

CausalOps == {"chain_stats", "explain", "similar"}

\* C8: after a load that found no transcripts, /api/chain-stats answers with
\* an empty chain list, /api/explain/<id> with not-found and
\* /api/similar/<id> with an empty list; none of them with an error.
C8_EmptyCorpusDegrades ==
    (/\ resp.op \in CausalOps
     /\ resp.via \in {"loaded", "built"}
     /\ cache.loaded /\ ~cache.load_error
     /\ cache.transcripts.set /\ Len(cache.transcripts.items) = 0)
        => /\ resp.status # 500
           /\ resp.op = "chain_stats" => (resp.status = 200 /\ resp.body = "empty list")
           /\ resp.op = "explain" => resp.status = 404
           /\ resp.op = "similar" => (resp.status = 200 /\ resp.body = "empty list")

\* C9: each data endpoint answers 200 with success = true in every load
\* state, also when a helper it calls raises.
C9_DataEndpointsSucceed ==
    resp.op \in DataOps => (resp.status = 200 /\ resp.success)

\* /api/stats answered from its except clause.
C9_Witness ==
    /\ resp.op = "stats"
    /\ resp.body = "fallback"
    /\ resp.status = 200

\* The texts the claim calls malformed or missing, for a turn that passes
\* the validation of lines 895-900.
MalformedKinds == {"none", "falsy", "nonstr"}
IsMalformed(turn) == turn.text.kind \in MalformedKinds \/ turn.text = Str({})

\* C10: signal extraction never throws for a malformed text and gives no
\* signals for it, and /api/analyze with such a turn still succeeds.
C10_ExtractionNeverThrows ==
    /\ \A t \in Threads : \A i \in 1..Len(arg[t].transcript) :
            IsMalformed(arg[t].transcript[i])
                => extract_signals_fallback(arg[t].transcript[i]) = Signals(<< >>)
    /\ (/\ resp.op = "analyze"
        /\ Len(resp.arg.transcript) > 0
        /\ FirstInvalid(resp.arg.transcript) = 0
        /\ \E i \in 1..Len(resp.arg.transcript) : IsMalformed(resp.arg.transcript[i]))
           => (resp.status = 200 /\ resp.success)

\* A transcript that passes the validation of lines 891-900.
BadTurn(turn) == ~turn.isdict \/ turn.speaker = "" \/ turn.text.kind = "absent"
Validated(tr) == Len(tr) > 0 /\ \A i \in 1..Len(tr) : ~BadTurn(tr[i])

\* C11: /api/analyze answers every transcript that passes its validation
\* with 200, success = true and the analysis fields, with or without
\* signals in the transcript and whatever the load state.
C11_AnalyzeSucceeds ==
    (resp.op = "analyze" /\ Validated(resp.arg.transcript)) =>
        /\ resp.status = 200
        /\ resp.success
        /\ {"risk_score", "escalated", "detected_signals", "causal_chain",
            "causal_explanation", "evidence", "turn_signals", "turn_count",
            "signal_count"} \subseteq resp.data.fields

\* C12: /api/analyze rejects a missing or empty transcript with 400 'No
\* transcript provided' and a transcript with a bad turn with 400 and the
\* 1-based index of the first bad turn; the step changes neither the cache
\* nor the sessions, and the response carries no session id and no analysis.
C12_AnalyzeRejects ==
    [][(resp'.op = "analyze" /\ ~Validated(resp'.arg.transcript)) =>
          LET tr == resp'.arg.transcript IN
          /\ resp'.status = 400
          /\ ~resp'.success
          /\ Len(tr) = 0 => resp'.body = "No transcript provided"
          /\ Len(tr) > 0 =>
                \E i \in 1..Len(tr) :
                    /\ BadTurn(tr[i])
                    /\ \A j \in 1..(i - 1) : ~BadTurn(tr[j])
                    /\ resp'.body = "Invalid transcript format at turn " \o ToString(i)
          /\ resp'.sid = ""
          /\ resp'.data = NoData
          /\ UNCHANGED <<cache, managers, heap, nextId, detectors, engines>>]_vars

\* A transcript whose second turn is the first bad one, and a later bad
\* turn behind it, rejected.
C12_Witness ==
    /\ resp.op = "analyze"
    /\ resp.status = 400
    /\ Len(resp.arg.transcript) = 3
    /\ ~BadTurn(resp.arg.transcript[1])
    /\ BadTurn(resp.arg.transcript[2])
    /\ BadTurn(resp.arg.transcript[3])
    /\ resp.body = "Invalid transcript format at turn 2"

RECURSIVE Flatten(_)
\* The signals of all turns, in turn order.
Flatten(lists) ==
    IF Len(lists) = 0 THEN << >>
    ELSE Flatten(SubSeq(lists, 1, Len(lists) - 1)) \o lists[Len(lists)]

FirstIndex(q, x) == CHOOSE i \in 1..Len(q) : q[i] = x /\ \A j \in 1..(i - 1) : q[j] # x

\* An analysis returned by /api/analyze.
Analyzed == resp.op = "analyze" /\ resp.status = 200

\* C13: the causal chain of a transcript holds every signal type detected
\* in any of its turns exactly once, in the order of first occurrence.
C13_ChainIsFirstOccurrences ==
    Analyzed =>
        LET chain == resp.data.causal_chain
            observed == Flatten(resp.data.turn_signals)
        IN /\ Range(chain) = Range(observed)
           /\ \A i \in 1..Len(chain), j \in 1..Len(chain) : i # j => chain[i] # chain[j]
           /\ \A i \in 1..Len(chain), j \in 1..Len(chain) :
                  i < j => FirstIndex(observed, chain[i]) < FirstIndex(observed, chain[j])

\* C16: the evidence of an analysis has exactly one item for each turn in
\* which a signal fired, carrying that turn and its signals, in strictly
\* increasing turn order, however many such turns there are.
C16_EvidenceIsFiredTurns ==
    Analyzed =>
        LET evidence == resp.data.evidence
            turn_signals == resp.data.turn_signals
            tr == resp.arg.transcript
            fired == {n \in 1..Len(tr) : Len(turn_signals[n]) > 0}
        IN /\ Len(evidence) = Cardinality(fired)
           /\ {evidence[k].turn_number : k \in 1..Len(evidence)} = fired
           /\ \A k \in 1..(Len(evidence) - 1) :
                  evidence[k].turn_number < evidence[k + 1].turn_number
           /\ \A k \in 1..Len(evidence) :
                  LET n == evidence[k].turn_number
                  IN /\ evidence[k].speaker = tr[n].speaker
                     /\ evidence[k].text = tr[n].text
                     /\ evidence[k].signals = turn_signals[n]

\* An analysis in which every one of MaxTurns turns fired a signal.
C16_Witness ==
    /\ Analyzed
    /\ Len(resp.arg.transcript) = MaxTurns
    /\ Len(resp.data.evidence) = MaxTurns

\* The threads that hold the text generate_explanation returned to them.
Holding == {t \in Threads : pc[t] \in {"again", "done"}}

\* C14: generate_explanation returns a text for every chain, the empty
\* chain and chains of unknown names included; for the empty chain the
\* text says that no escalation signals were detected; a second call with
\* the same chain returns the same text, whatever its other arguments.
C14_ExplanationIsTotalAndPure ==
    /\ \A t \in Holding :
          /\ Len(ret[t].text) > 0
          /\ (Len(arg[t].chain) = 0) =
                (ret[t].text = <<"No escalation signals detected in this conversation.">>)
    /\ (resp.op = "generate_explanation" /\ resp.thread \in Holding) =>
          resp.data.causal_explanation = ret[resp.thread].text

\* A second call whose other arguments differ from the first's, for a
\* chain with a name that is not in the synonym table.
C14_Witness ==
    /\ resp.op = "generate_explanation"
    /\ resp.thread \in Holding
    /\ resp.arg.all_signals # arg[resp.thread].all_signals
    /\ "escalation_request" \in Range(resp.arg.chain)

\* C15: the sentence structure follows the length of the chain: one
\* signal gives the single-factor sentence, two give 'First, ... Then, ...'
\* with the two names in chain order, three or more give the narrative
\* that lists all names but the last in chain order, separated by ', ',
\* and ends with ', and finally <last>'.
C15_StructureByLength ==
    \A t \in Holding :
        LET chain == arg[t].chain
            n == Len(chain)
            text == ret[t].text
        IN /\ n = 1 =>
                text = <<"The primary escalation factor in this conversation was ",
                         ReadableName(chain[1]),
                         ". This pattern was present throughout the interaction and contributed to the negative outcome.">>
           /\ n = 2 =>
                text = <<"This conversation shows a sequence of escalation factors: First, ",
                         ReadableName(chain[1]),
                         " was present. Then, ",
                         ReadableName(chain[2]),
                         " occurred, which compounded the issue. Together, these factors led to escalation.">>
           /\ n >= 3 =>
                /\ Len(text) = 2 * n + 1
                /\ text[1] = "This conversation demonstrates a critical escalation sequence: "
                /\ \A i \in 1..(n - 1) : text[2 * i] = ReadableName(chain[i])
                /\ \A i \in 1..(n - 2) : text[2 * i + 1] = ", "
                /\ text[2 * n - 1] = ", and finally "
                /\ text[2 * n] = ReadableName(chain[n])
                /\ text[2 * n + 1] = ". At each stage, the situation deteriorated, leading to a clear escalation pattern."

\* The text of a chain of MaxChainLen distinct names.
C15_Witness ==
    \E t \in Holding :
        /\ Len(arg[t].chain) = MaxChainLen
        /\ Cardinality(Range(arg[t].chain)) = MaxChainLen

\* The items of the statistics that pass the filters of a response.
Passing(stats, r) ==
    {i \in 1..Len(stats) : /\ stats[i].confidence >= r.arg.min_confidence
                           /\ stats[i].occurrences >= r.arg.min_evidence}

ChainStatsAnswer ==
    LET stats == ChainStatsOf(cache.detector)
        chains == resp.data.chains
    IN /\ \A k \in 1..Len(chains) :
             \E i \in Passing(stats, resp) :
                 /\ stats[i].key = chains[k].chain
                 /\ chains[k].confidence = Round3(stats[i].confidence)
                 /\ chains[k].occurrences = stats[i].occurrences
       /\ \A k \in 1..Len(chains), l \in 1..Len(chains) : k # l => chains[k].chain # chains[l].chain
       /\ \A k \in 1..(Len(chains) - 1) : chains[k].confidence >= chains[k + 1].confidence
       /\ Len(chains) <= ChainCap
       /\ Len(chains) = Min(ChainCap, resp.data.filtered_chains)
       /\ resp.data.filtered_chains = Cardinality(Passing(stats, resp))
       /\ resp.data.total_chains = Len(stats)

\* C17: /api/chain-stats returns only chains with confidence >=
\* min_confidence and occurrences >= min_evidence, by non-increasing
\* confidence, at most 50; filtered_chains counts the chains that pass the
\* filters, total_chains all chain keys; the call leaves the statistics
\* as they were.
C17_ChainStatsFiltered ==
    /\ []((resp.op = "chain_stats" /\ resp.status = 200) => ChainStatsAnswer)
    /\ [][resp'.op = "chain_stats" =>
             /\ detectors' = detectors
             /\ cache'.detector = cache.detector]_vars

\* More chains pass the filters than the cap lets through, and they are
\* not all of one confidence.
C17_Witness ==
    /\ resp.op = "chain_stats"
    /\ resp.status = 200
    /\ resp.data.filtered_chains > ChainCap
    /\ Len(resp.data.chains) = ChainCap
    /\ resp.data.chains[1].confidence > resp.data.chains[ChainCap].confidence

\* C18: the answer of /api/similar never holds the reference id, holds at
\* most top_k = 10 ids, has count equal to the length of the list, and is
\* the empty list, not an error, when the reference transcript has no
\* matched chain.
C18_SimilarNeverErrors ==
    (resp.op = "similar" /\ resp.via \in {"loaded", "built"}) =>
        /\ resp.status = 200 =>
              /\ \A i \in 1..Len(resp.data.similar_cases) :
                     resp.data.similar_cases[i] # resp.arg.id
              /\ Len(resp.data.similar_cases) <= TopK
              /\ resp.data.count = Len(resp.data.similar_cases)
        /\ NotFoundCase(resp.arg.id) =>
              /\ resp.status = 200
              /\ resp.data.similar_cases = << >>

\* The ids under which some session was created.
CreatedIds == {heap[a].session_id : a \in Sessions}

SessionRoundTrip ==
    /\ \A a \in Sessions : GetSession(heap[a].mgr, heap[a].session_id) = a
    /\ (resp.op = "query" /\ resp.status = 200) =>
          /\ cache.session_manager # 0
          /\ LET a == GetSession(cache.session_manager, resp.sid)
             IN /\ a # 0
                /\ \E i \in 1..Len(heap[a].history) :
                       heap[a].history[i].question = Strip(resp.arg.question)
    /\ (resp.op = "session" /\ resp.status = 200) =>
          resp.data.query_history =
              heap[GetSession(cache.session_manager, resp.arg.sid)].history
    /\ (resp.op = "session" /\ resp.arg.sid \notin CreatedIds) =>
          (resp.status = 404 /\ resp.body = "Session not found")

\* C19: a session made by create_session stays the one get_session returns
\* for its id; once /api/query has answered success with session id s, the
\* session /api/session/s returns holds that question in its history, in
\* the order recorded; /api/session/<id> for an id never created answers
\* 404 'Session not found' and creates no session.
C19_SessionRoundTrip ==
    /\ []SessionRoundTrip
    /\ [][resp'.op = "session" => (managers' = managers /\ heap' = heap)]_vars

\* ------------------------------------------------ chain statistics, 4.2-4.3
\* The aggregator and the query engine of src.causal_chains and
\* src.causal_query_engine, as the spec's 4.2 and 4.3 give them.

\* The instance sequence of a transcript: the first occurrence of each
\* signal type, in turn order.
InstanceSequence(turns) == FirstOccurrences(Flatten(TurnSignalsOf(turns)))

\* Every non-empty prefix of a sequence.
Prefixes(seq) == {SubSeq(seq, 1, n) : n \in 1..Len(seq)}

\* The transcripts of the corpus that support the chain key.
Supports(corpus, key) ==
    {i \in 1..Len(corpus) : key \in Prefixes(InstanceSequence(corpus[i].turns))}

\* One registration of a chain key for a transcript of the given outcome:
\* the key's entry is made when it is missing, and its occurrences and the
\* count of the outcome go up by one.
RegisterChain(chain_stats, key, outcome) ==
    LET new == [key |-> key, occurrences |-> 0, escalated_count |-> 0, resolved_count |-> 0]
        all == IF \E e \in chain_stats : e.key = key THEN chain_stats ELSE chain_stats \cup {new}
    IN {IF e.key # key THEN e
        ELSE [e EXCEPT !.occurrences = @ + 1,
                       !.escalated_count = IF outcome = "ESCALATED" THEN @ + 1 ELSE @,
                       !.resolved_count = IF outcome = "RESOLVED" THEN @ + 1 ELSE @] : e \in all}

\* Only the full sequence is registered.
RegisterPrefixes_FullOnly(chain_stats, seq, n, outcome) ==
    IF n = 0 \/ Len(seq) = 0 THEN chain_stats
    ELSE RegisterChain(chain_stats, seq, outcome)

RECURSIVE RegisterPrefixes(_, _, _, _)
\* The prefixes of length 1..n of the instance sequence are registered.
RegisterPrefixes(chain_stats, seq, n, outcome) ==
    IF n = 0 THEN chain_stats
    ELSE RegisterChain(RegisterPrefixes(chain_stats, seq, n - 1, outcome),
                       SubSeq(seq, 1, n), outcome)

RECURSIVE compute_chain_statistics(_)
\* compute_chain_statistics: the pass over the corpus, transcript by
\* transcript, each registering every non-empty prefix of its sequence.
compute_chain_statistics(corpus) ==
    IF Len(corpus) = 0 THEN {}
    ELSE LET last == corpus[Len(corpus)]
             seq == InstanceSequence(last.turns)
         IN RegisterPrefixes(compute_chain_statistics(SubSeq(corpus, 1, Len(corpus) - 1)),
                             seq, Len(seq), last.outcome)

\* The explanation with the shortest stored prefix taken.
explain_escalation_Shortest(chain_stats, turns) ==
    LET seq == InstanceSequence(turns)
        present == {e \in chain_stats : e.key \in Prefixes(seq)}
    IN IF present = {}
       THEN [explained |-> FALSE, chain |-> << >>, confidence |-> [num |-> 0, den |-> 1]]
       ELSE LET e == CHOOSE x \in present : \A y \in present : Len(y.key) >= Len(x.key)
            IN [explained |-> TRUE, chain |-> e.key,
                confidence |-> [num |-> e.escalated_count, den |-> e.occurrences]]

\* explain_escalation, steps 2-4 and 7: the longest prefix of the instance
\* sequence that is a stored key, and that key's confidence.
explain_escalation(chain_stats, turns) ==
    LET seq == InstanceSequence(turns)
        present == {e \in chain_stats : e.key \in Prefixes(seq)}
    IN IF present = {}
       THEN [explained |-> FALSE, chain |-> << >>, confidence |-> [num |-> 0, den |-> 1]]
       ELSE LET e == CHOOSE x \in present : \A y \in present : Len(y.key) <= Len(x.key)
            IN [explained |-> TRUE, chain |-> e.key,
                confidence |-> [num |-> e.escalated_count, den |-> e.occurrences]]

\* The two turns of the spec's example, by the words of their lowered
\* texts, and the transcripts made of them.
FrustratedTurn == Turn("CUSTOMER", Str({"i", "am", "frustrated", "and", "angry"}))
DenialTurn == Turn("AGENT", Str({"unfortunately", "i", "cannot", "help", "it's", "impossible"}))
ExampleTranscript == <<FrustratedTurn, DenialTurn>>
CorpusTranscripts ==
    { ExampleTranscript,
      <<DenialTurn, FrustratedTurn>>,
      <<FrustratedTurn>>,
      <<FrustratedTurn, Turn("AGENT", Str({"wait"})), DenialTurn>>,
      <<Turn("CUSTOMER", Str({"hello"}))>> }
Outcomes == {"ESCALATED", "RESOLVED"}
MaxCorpus == 2
Labelled == [turns : CorpusTranscripts, outcome : Outcomes]
Corpora == UNION {[1..n -> Labelled] : n \in 1..MaxCorpus}

\* A caller is about to aggregate a corpus.
StartAggregate(t) ==
    /\ pc[t] = "idle"
    /\ reqs < MaxRequests
    /\ \E corpus \in Corpora :
          Begin(t, "explain_escalation", [NoArg EXCEPT !.corpus = corpus], "cs1")

\* The pass over the corpus; the caller keeps the statistics.
ComputeChainStatistics(t) ==
    /\ pc[t] = "cs1"
    /\ ret' = [ret EXCEPT ![t] = [NoRet EXCEPT !.via = "returned",
                  !.chain_stats = compute_chain_statistics(arg[t].corpus)]]
    /\ Goto(t, "ee1")
    /\ Quiet
    /\ UNCHANGED <<cache, envVars, sessVars, op, arg, detectors, engines, builders, reqs>>

\* One transcript of the corpus is explained; the answer carries the
\* signals of its turns and the chain of extract_causal_chain next to the
\* explanation.
ExplainOne(t) ==
    /\ pc[t] = "ee1"
    /\ \E i \in 1..Len(arg[t].corpus) :
          LET turns == arg[t].corpus[i].turns
              turn_signals == TurnSignalsOf(turns)
              e == explain_escalation(ret[t].chain_stats, turns)
          IN resp' = [NoResp EXCEPT !.thread = t, !.op = op[t],
                         !.arg = [arg[t] EXCEPT !.transcript = turns],
                         !.via = "returned", !.status = 200, !.success = TRUE,
                         !.data = [NoData EXCEPT
                                      !.turn_signals = turn_signals,
                                      !.causal_chain = extract_causal_chain(turns,
                                                           Flatten(turn_signals), turn_signals),
                                      !.chain_stats = ret[t].chain_stats,
                                      !.explained = e.explained,
                                      !.chain = e.chain,
                                      !.confidence = e.confidence]]
    /\ Goto(t, "done")
    /\ UNCHANGED <<cache, envVars, sessVars, op, arg, ret, detectors, engines, builders, reqs>>

InitAggregate == InitExplain

NextAggregate ==
    \E t \in Threads :
        \/ StartAggregate(t) \/ ComputeChainStatistics(t) \/ ExplainOne(t) \/ EndExplanation(t)

SpecAggregate == InitAggregate /\ [][NextAggregate]_vars

ExampleKey == <<"customer_frustration", "agent_denial">>

\* C20: the turn 'I am frustrated and angry' yields customer_frustration,
\* the turn 'Unfortunately I cannot help, it's impossible' yields
\* agent_denial; the transcript of the two turns in that order has the
\* chain [customer_frustration, agent_denial]; with outcome ESCALATED, alone
\* in the corpus, the chain is registered with occurrences = 1 and
\* escalated_count = 1, and explaining the transcript returns that key
\* with confidence 1.0.
C20_SpecExample ==
    (resp.op = "explain_escalation" /\ resp.arg.transcript = ExampleTranscript) =>
        /\ "customer_frustration" \in Range(resp.data.turn_signals[1])
        /\ "agent_denial" \in Range(resp.data.turn_signals[2])
        /\ resp.data.causal_chain = ExampleKey
        /\ \E e \in resp.data.chain_stats : e.key = ExampleKey
        /\ resp.data.explained
        /\ resp.data.chain = ExampleKey
        /\ resp.arg.corpus = <<[turns |-> ExampleTranscript, outcome |-> "ESCALATED"]>> =>
              /\ \A e \in resp.data.chain_stats :
                     e.key = ExampleKey => (e.occurrences = 1 /\ e.escalated_count = 1)
              /\ resp.data.confidence = [num |-> 1, den |-> 1]

\* The example transcript, escalated and alone in the corpus, was explained.
C20_Witness ==
    /\ resp.op = "explain_escalation"
    /\ resp.arg.transcript = ExampleTranscript
    /\ resp.arg.corpus = <<[turns |-> ExampleTranscript, outcome |-> "ESCALATED"]>>
    /\ resp.data.explained

\* The statistics an aggregation returned, and the corpus they are of.
Aggregated == resp.op = "explain_escalation" /\ resp.status = 200

\* C21: every transcript with a non-empty instance sequence counts for
\* every non-empty prefix of it and for no other key, a transcript without
\* signals for none; so a stored key occurs at least as often as the key
\* one signal longer, and every stored key has occurrences >= 1.
C21_PrefixRegistration ==
    Aggregated =>
        LET stats == resp.data.chain_stats
            corpus == resp.arg.corpus
        IN /\ {e.key : e \in stats} =
                  UNION {Prefixes(InstanceSequence(corpus[i].turns)) : i \in 1..Len(corpus)}
           /\ \A e \in stats, f \in stats : e.key = f.key => e = f
           /\ \A e \in stats :
                  /\ e.occurrences = Cardinality(Supports(corpus, e.key))
                  /\ e.occurrences >= 1
           /\ \A e \in stats, f \in stats :
                  (Len(f.key) = Len(e.key) + 1 /\ SubSeq(f.key, 1, Len(e.key)) = e.key)
                      => e.occurrences >= f.occurrences

\* A key with two occurrences whose extension by one signal has one.
C21_Witness ==
    /\ Aggregated
    /\ \E e \in resp.data.chain_stats, f \in resp.data.chain_stats :
          /\ Len(f.key) = Len(e.key) + 1
          /\ SubSeq(f.key, 1, Len(e.key)) = e.key
          /\ e.occurrences = 2
          /\ f.occurrences = 1

\* C22: for a transcript of the corpus with at least one detected signal
\* the explanation is there and its chain is a prefix of the transcript's
\* instance sequence: the full sequence when that is a stored key, else the
\* longest stored prefix; for a transcript without signals there is no
\* explanation.
C22_ExplainsLongestPrefix ==
    Aggregated =>
        LET seq == InstanceSequence(resp.arg.transcript)
            keys == {e.key : e \in resp.data.chain_stats}
        IN IF Len(seq) >= 1
           THEN /\ resp.data.explained
                /\ resp.data.chain \in Prefixes(seq) \cap keys
                /\ seq \in keys => resp.data.chain = seq
                /\ \A k \in Prefixes(seq) \cap keys : Len(k) <= Len(resp.data.chain)
           ELSE /\ ~resp.data.explained
                /\ resp.data.chain = << >>

\* A transcript with three signal types was explained from statistics in
\* which its first signal alone occurs more often than its full sequence.
C22_Witness ==
    /\ Aggregated
    /\ resp.data.explained
    /\ Len(resp.data.chain) = 3
    /\ \E e \in resp.data.chain_stats : Len(e.key) = 1 /\ e.occurrences = 2

\* The cache after a build that raised: empty lists, load_error set.
AfterException ==
    cache.load_error =>
        /\ cache.loaded
        /\ cache.transcripts.set /\ Len(cache.transcripts.items) = 0
        /\ cache.processed.set /\ Len(cache.processed.items) = 0

\* The steps of the lifecycle: loaded never goes back to False; a build
\* ends (line 148) with loading = False and loaded = True; a load_data()
\* call that finds loaded = True returns the cache and starts no build.
LifecycleStep ==
    /\ cache.loaded => cache'.loaded
    /\ \A t \in Threads :
          /\ (pc[t] = "ld148" /\ pc'[t] # "ld148") => (~cache'.loading /\ cache'.loaded)
          /\ (pc[t] = "ld95" /\ cache.loaded /\ pc'[t] # "ld95") => pc'[t] \notin {"ld98", "ld102"} \cup BuildPcs

\* C23: loaded is monotonic; every build ends with loading = False and
\* loaded = True on the normal, the empty and the exception path; after an
\* exception the cache holds empty transcripts and processed lists with
\* load_error set, and no later load_data() call builds again.
C23_LoadLifecycle == []AfterException /\ [][LifecycleStep]_vars

\* The lines of the inner try (122-132).
CausalPcs == {"ld124", "ld125", "ld129", "ld132"}

ComponentsInOrder ==
    /\ cache.session_manager # 0 => cache.query_engine # 0
    /\ cache.query_engine # 0 => cache.detector # 0

\* A thread leaves the inner try for line 136 only, with the lists as they
\* were, and line 136 sets loaded.
InitFailureStep ==
    \A t \in Threads :
        /\ (pc[t] \in CausalPcs /\ pc'[t] \notin CausalPcs) =>
              /\ pc'[t] = "ld136"
              /\ cache'.transcripts = cache.transcripts
              /\ cache'.processed = cache.processed
              /\ cache'.load_error = cache.load_error
        /\ (pc[t] = "ld136" /\ pc'[t] # "ld136") => cache'.loaded

\* C24: the session manager is there only if the query engine is, and the
\* query engine only if the detector is; a failure while they are
\* initialized still ends the load with loaded = True and leaves the
\* transcripts and the processed turns in the cache.
C24_ComponentsInOrder == []ComponentsInOrder /\ [][InitFailureStep]_vars

\* A load that ended after the query engine could not be made: the
\* detector is there, the engine is not, the corpus is kept.
C24_Witness ==
    /\ cache.loaded /\ ~cache.loading /\ ~cache.load_error
    /\ cache.detector # 0
    /\ cache.query_engine = 0
    /\ Len(cache.transcripts.items) > 0
    /\ Len(cache.processed.items) > 0

\* A question that is missing, empty or made of whitespace.
Blank(q) == q \in {"", " "}

\* A request without a question touches no session, whatever it does.
BlankQueryStep ==
    \A t \in Threads :
        (op[t] = "query" /\ Blank(arg[t].question) /\ pc'[t] # pc[t]) =>
            /\ heap' = heap
            /\ managers' = managers
            /\ (pc'[t] = "idle" => (resp'.status = 400 /\ resp'.body = "No question provided"))

\* A successful request has appended its question to one session, the one
\* with the id it answers with.
RecordedQueryStep ==
    (resp'.op = "query" /\ resp'.status = 200 /\ resp' # resp) =>
        /\ ~Blank(resp'.arg.question)
        /\ Len(heap') = Len(heap)
        /\ \E a \in Sessions :
              /\ heap'[a] = [heap[a] EXCEPT !.history =
                                Append(@, [question |-> resp'.arg.question,
                                           response_type |-> "followup",
                                           session_id |-> resp'.sid])]
              /\ heap[a].session_id = resp'.sid
              /\ \A b \in Sessions \ {a} : heap'[b] = heap[b]
              /\ IF resp'.arg.sid # ""
                 THEN resp'.sid = resp'.arg.sid
                 ELSE /\ resp'.sid \in GeneratedIds
                      /\ a = loc[resp'.thread].ctx
                      /\ \A b \in Sessions \ {a} : heap[b].session_id # resp'.sid

\* C25: /api/query without a question answers 400 'No question provided'
\* and creates or changes no session; a request with a question that
\* succeeds has appended that one query, of type 'followup', to one
\* session, and answers with the supplied session id or, when none was
\* supplied, with the id of a session it created.
C25_QueryRecordsOnce == [][BlankQueryStep /\ RecordedQueryStep]_vars

\* A whitespace-only question was turned down while a session with a
\* recorded query and a session made without a supplied id exist.
C25_Witness ==
    /\ resp.op = "query"
    /\ resp.arg.question = " "
    /\ resp.status = 400
    /\ \E a \in Sessions : Len(heap[a].history) = 1 /\ heap[a].session_id \in GeneratedIds

\* The session an analysis answered with: registered under the id of the
\* response, the only one of that id, holding the one payload.
AnalysisSessions ==
    {a \in Sessions : /\ heap[a].session_id = resp.sid
                      /\ cache.session_manager # 0
                      /\ GetSession(cache.session_manager, resp.sid) = a}

AnalysisAnswer ==
    /\ (resp.op = "analyze" /\ Validated(resp.arg.transcript)) =>
          (resp.status = 200 /\ resp.success)
    /\ (Analyzed /\ resp.sid # "") =>
          /\ resp.sid \in GeneratedIds
          /\ Cardinality({a \in Sessions : heap[a].session_id = resp.sid}) = 1
          /\ \E a \in AnalysisSessions :
                /\ heap[a].history = << >>
                /\ Len(heap[a].context) = 1
                /\ heap[a].context[1].transcript = resp.arg.transcript
                /\ heap[a].context[1].analysis.risk_score = resp.data.risk_score
                /\ heap[a].context[1].analysis.escalated = resp.data.escalated
                /\ heap[a].context[1].analysis.causal_chain = resp.data.causal_chain
                /\ heap[a].context[1].analysis.detected_signals = resp.data.detected_signals
                /\ heap[a].context[1].analysis.evidence = resp.data.evidence
    /\ (Analyzed /\ resp.sid = "") =>
          \A a \in Sessions : heap[a].context = << >>

\* No step of the handler is a step of load_data or changes the cache, and
\* it answers with a session id exactly when it has attached the context.
AnalyzeStep ==
    \A t \in Threads :
        (op[t] = "analyze" /\ pc'[t] # pc[t]) =>
            /\ cache' = cache
            /\ pc'[t] \in {"a960", "a961", "idle"}
            /\ (pc'[t] = "idle" /\ resp'.status = 200) =>
                  (resp'.sid # "" <=> (cache.session_manager # 0 /\ heap' # heap /\ pc[t] = "a961"))

\* C26: /api/analyze does not depend on the corpus load: it never calls
\* load_data and succeeds in every load state; the answer carries a
\* session_id exactly when a session manager exists and create_session and
\* add_context succeeded, and then the session of that id is new and holds
\* the transcript and the analysis of the answer; a failure creating the
\* session does not fail the analysis.
C26_AnalyzeIndependentOfLoad == []AnalysisAnswer /\ [][AnalyzeStep]_vars

\* C27: the chain of an analysis holds at most three signals: the first
\* min(3, d) of the d distinct signals in the order of their first
\* occurrence; so the 'three or more' sentence is only ever made for a
\* chain of exactly three.
C27_ChainAtMostThree ==
    Analyzed =>
        LET chain == resp.data.causal_chain
            all == Flatten(resp.data.turn_signals)
            d == Cardinality(Range(all))
        IN /\ Len(chain) = (IF d < 3 THEN d ELSE 3)
           /\ \A i \in 1..Len(chain) :
                  /\ chain[i] \in Range(all)
                  /\ Cardinality({x \in Range(all) : FirstIndex(all, x) < FirstIndex(all, chain[i])})
                         = i - 1
           /\ Len(chain) >= 3 =>
                  resp.data.causal_explanation =
                      generate_explanation(<<chain[1], chain[2], chain[3]>>, << >>, << >>)

\* An analysis that detected four signal types.
C27_Witness ==
    /\ Analyzed
    /\ Cardinality(resp.data.detected_signals) = 4
    /\ Len(resp.data.causal_chain) = 3

\* C28: the risk score of an analysis lies in [0, 1]; it is 0 exactly when
\* no turn has a signal; 'escalated' is true exactly when the score is
\* above 0.6; an analysis without signals is not escalated and has an empty
\* chain and no evidence.
C28_RiskScoreInRange ==
    Analyzed =>
        LET r == resp.data.risk_score
            quiet == \A i \in 1..Len(resp.data.turn_signals) : resp.data.turn_signals[i] = << >>
        IN /\ r.den > 0
           /\ 0 <= r.num /\ r.num <= r.den
           /\ r.num = 0 <=> quiet
           /\ resp.data.escalated <=>
                 (10 * r.num > 6 * r.den \/ (10 * r.num = 6 * r.den /\ resp.data.risk_rounding = 1))
           /\ quiet => /\ ~resp.data.escalated
                       /\ resp.data.causal_chain = << >>
                       /\ resp.data.evidence = << >>

\* A score of exactly six tenths whose float is not above 0.6: not escalated.
C28_Witness ==
    /\ Analyzed
    /\ 10 * resp.data.risk_score.num = 6 * resp.data.risk_score.den
    /\ resp.data.risk_rounding = 0
    /\ ~resp.data.escalated

\* The keys of the JSON object a data endpoint answers with: every jsonify
\* of lines 164-494 passes 'success' and 'data' and nothing else, whichever
\* branch produced the figures.
ResponseKeys(body) == {"success", "data"}

\* The keys that would mark a response as demonstration data.
DemoKeys == {"demo", "demo_mode", "synthetic"}

\* The endpoints that answer with figures about the corpus.
CorpusOps == DataOps \ {"health"}

\* C29: a successful response of /api/stats, /api/causes, /api/signals,
\* /api/warnings, /api/domains or /api/intents carries values computed
\* from the loaded corpus or is labelled as demonstration data, in every
\* load state.
C29_NoSilentSynthetic ==
    (resp.op \in CorpusOps /\ resp.success) =>
        \/ resp.body = "computed"
        \/ ResponseKeys(resp.body) \cap DemoKeys # {}

\* The readable name the synonym table and the replacement of underscores
\* give each signal name, written out.
RenderedName(s) ==
    CASE s = "customer_frustration" -> "customer frustration"
      [] s = "agent_delay" -> "agent delays"
      [] s = "agent_denial" -> "agent denials"
      [] s = "escalation_request" -> "escalation request"
      [] s = "agent_rude_tone" -> "agent rude tone"
      [] s = "churn" -> "churn"

\* C30: in the explanation, customer_frustration, agent_delay and
\* agent_denial appear as their synonyms and every other signal name
\* appears as the raw name with each underscore replaced by a space; this
\* is so in the single-factor sentence, in the two-factor sentence and in
\* the narrative of three or more names alike.
C30_NamesAreMapped ==
    \A t \in Holding :
        LET chain == arg[t].chain
            text == ret[t].text
        IN /\ Len(chain) > 0 => Len(text) = 2 * Len(chain) + 1
           /\ \A i \in 1..Len(chain) : text[2 * i] = RenderedName(chain[i])

\* A narrative of three names: one of the table, one with two underscores,
\* one without any.
C30_Witness ==
    \E t \in Holding :
        /\ Len(arg[t].chain) = 3
        /\ Range(arg[t].chain) = {"agent_delay", "agent_rude_tone", "churn"}
====
